---------------------------- MODULE Spec2Model ----------------------------
(***************************************************************************)
(* Model of the weather-market bot: the cycle loop (BotRunner._run /       *)
(* _cycle), the price-refresh loop (_run_prices / _refresh_prices), the    *)
(* status endpoint (routes.api_status), the portfolio (AutoPortfolio) and  *)
(* the scorer (MarketScorer).                                              *)
(*                                                                         *)
(* Units.  Prices and fractions are fixed-point in thousandths (0.06 is    *)
(* 60, 0.99 is 990, 1% is 10).  Currency is fixed-point in cents (100.0 is *)
(* 10000).  A quantity of tokens is held in cent-tokens: the value in      *)
(* cents of the tokens at price 1.0.  Divisions truncate.                  *)
(***************************************************************************)
EXTENDS Integers, Sequences, FiniteSets, TLC

(***************************************************************************)
(* Bounds of the model.                                                    *)
(***************************************************************************)
\* markets the discovery source knows in the main environment
NumMarkets == 2
\* the longest history that is scored
MaxScoreRecords == 5
\* the calls of MarketScorer.record that are followed
MaxRecords == 52
\* the highest price, in thousandths, a position size is computed for
MaxSizePrice == 160
\* the calls of _close_position that are followed
MaxCloseCalls == 3
\* markets the discovery source knows in the exposure environment
NumCapMarkets == 3
\* markets the discovery source knows in the breaker environment
NumBreakerMarkets == 7
\* iterations of the cycle loop
MaxCycles == 2
\* passes of the price-refresh loop
MaxRefresh == 1
\* /api/status requests
MaxStatus == 1

(***************************************************************************)
(* Program constants.  The app.config values are read from the process     *)
(* environment; MAX_POSITIONS and MAX_REGION_EXPOSURE are run here with a  *)
(* small configured value (defaults 20 and 0.25) and PRICE_HISTORY_TTL     *)
(* with one monitor interval, the unit of the clock (default 3600 s); the  *)
(* others with their defaults.                                             *)
(***************************************************************************)
MAX_CLOB_VERIFY == 15
MIN_YES_PRICE == 60
MAX_YES_PRICE == 120
MIN_ENTRY_SCORE == 60
TAKE_PROFIT_YES == 150
SCORE_VOLUME_HIGH == 500
SCORE_VOLUME_MID == 300
SCORE_VOLUME_LOW == 200
PRICE_HISTORY_TTL == 1
POSITION_SIZE_MIN == 10
POSITION_SIZE_MAX == 20
MAX_POSITIONS == 2
MAX_REGION_EXPOSURE == 30
INITIAL_CAPITAL == 10000
MAX_HISTORY_PER_MARKET == 50
\* literals of the code
RESOLVED_PRICE == 990
SANITY_MAX_YES == 500
DUST_AMOUNT == 50
CLOB_FAIL_LIMIT == 5
CLOB_FAIL_LIMIT_POS == 2
CLOB_FAIL_LIMIT_REFRESH == 2
DISPLAY_MAX == 20
CAPITAL_HISTORY_MAX == 500

\* Python's None, for a price that was not obtained
None == -1

Min(a, b) == IF a <= b THEN a ELSE b
Max(a, b) == IF a >= b THEN a ELSE b

(***************************************************************************)
(* The discovery source's catalogue: the opportunity it returns for a      *)
(* market id.  Market 4 has no yes_token_id and a city outside the tables. *)
(***************************************************************************)
CityOf(m) ==
    CASE m = 1 -> "chicago"
      [] m = 2 -> "denver"
      [] m = 4 -> "reykjavik"
      [] OTHER -> "miami"

VolumeOf(m) == IF m = 2 THEN 250 ELSE 600

Opportunity(m) ==
    [condition_id |-> m, city |-> CityOf(m), volume |-> VolumeOf(m),
     yes_token_id |-> (m # 4), yes_price |-> None, no_price |-> None]

\* app.config.REGION_MAP, with "other" for a city it does not hold
RegionOf(city) ==
    CASE city \in {"chicago", "denver"} -> "midwest"
      [] city \in {"dallas", "houston", "atlanta", "miami", "phoenix"} -> "south"
      [] city \in {"boston", "nyc"} -> "northeast"
      [] city \in {"seattle", "los-angeles"} -> "pacific"
      [] city \in {"london", "paris", "ankara"} -> "europe"
      [] city \in {"wellington", "buenos-aires", "sao-paulo"} -> "southern"
      [] city = "seoul" -> "asia"
      [] city = "toronto" -> "north_america"
      [] OTHER -> "other"

\* the cities app.config.CITY_UTC_OFFSET holds
HasUtcOffset(city) ==
    city \in {"chicago", "dallas", "houston", "atlanta", "miami", "nyc", "boston",
              "toronto", "seattle", "los-angeles", "phoenix", "denver", "london",
              "paris", "ankara", "seoul", "wellington", "sao-paulo", "buenos-aires"}

\* app.config.CITY_UTC_OFFSET
CityUtcOffset(city) ==
    CASE city \in {"chicago", "dallas", "houston"} -> -6
      [] city \in {"atlanta", "miami", "nyc", "boston", "toronto"} -> -5
      [] city \in {"seattle", "los-angeles"} -> -8
      [] city \in {"phoenix", "denver"} -> -7
      [] city = "london" -> 0
      [] city = "paris" -> 1
      [] city = "ankara" -> 3
      [] city = "seoul" -> 9
      [] city = "wellington" -> 13
      [] city \in {"sao-paulo", "buenos-aires"} -> -3
      [] OTHER -> 0

(***************************************************************************)
(* MarketScorer: the sub-scores and score().  A history is a sequence of   *)
(* observations [ts, yes_price, volume].                                   *)
(***************************************************************************)
\* zones that put 0.09 in zone A
price_score_wide_a(yes_price) ==
    IF 60 <= yes_price /\ yes_price <= 90 THEN [pts |-> 30, zone |-> "A"]
    ELSE IF 90 < yes_price /\ yes_price <= 120 THEN [pts |-> 20, zone |-> "B"]
    ELSE [pts |-> 0, zone |-> "-"]

price_score(yes_price) ==
    IF 60 <= yes_price /\ yes_price < 90 THEN [pts |-> 30, zone |-> "A"]
    ELSE IF 90 <= yes_price /\ yes_price <= 120 THEN [pts |-> 20, zone |-> "B"]
    ELSE [pts |-> 0, zone |-> "-"]

SeqMax(s) == CHOOSE x \in {s[i] : i \in DOMAIN s} : \A j \in DOMAIN s : s[j] <= x
SeqMin(s) == CHOOSE x \in {s[i] : i \in DOMAIN s} : \A j \in DOMAIN s : s[j] >= x

\* hist[-n:]
LastN(s, n) == IF Len(s) <= n THEN s ELSE SubSeq(s, Len(s) - n + 1, Len(s))

\* avg_change = (prices[-1] - prices[0]) / (len(prices) - 1) is compared with
\* 0.02 and 0.005 by cross-multiplication
trajectory_score(hist) ==
    IF Len(hist) < 2 THEN 0
    ELSE LET n == Min(4, Len(hist))
             prices == [i \in 1..n |-> LastN(hist, n)[i].yes_price]
             variation == SeqMax(prices) - SeqMin(prices)
             delta == prices[n] - prices[1]
         IN  IF delta > 20 * (n - 1) THEN 10
             ELSE IF delta >= 5 * (n - 1) THEN 30
             ELSE IF variation < 10 THEN 20
             ELSE 0

volume_score(volume) ==
    IF volume >= SCORE_VOLUME_HIGH THEN 20
    ELSE IF volume >= SCORE_VOLUME_MID THEN 15
    ELSE IF volume >= SCORE_VOLUME_LOW THEN 10
    ELSE 0

\* utc_hour is the hour of _now_utc()
time_score(city, utc_hour) ==
    IF ~HasUtcOffset(city) THEN 0
    ELSE LET h == (utc_hour + CityUtcOffset(city)) % 24
         IN  IF h >= 16 THEN 20
             ELSE IF h >= 14 THEN 15
             ELSE IF h >= 12 THEN 10
             ELSE IF h >= 11 THEN 5
             ELSE 0

score(hist, city, utc_hour) ==
    IF Len(hist) = 0
    THEN [total |-> 0, price |-> 0, trajectory |-> 0, volume |-> 0, time |-> 0,
          observations |-> 0, zone |-> "-"]
    ELSE LET last == hist[Len(hist)]
             ps == price_score(last.yes_price)
             traj_pts == trajectory_score(hist)
             vol_pts == volume_score(last.volume)
             time_pts == time_score(city, utc_hour)
         IN  [total |-> ps.pts + traj_pts + vol_pts + time_pts,
              price |-> ps.pts, trajectory |-> traj_pts, volume |-> vol_pts,
              time |-> time_pts, observations |-> Len(hist), zone |-> ps.zone]

\* self._history.get(condition_id, [])
HistoryOf(h, cid) == IF cid \in DOMAIN h THEN h[cid] ELSE << >>

\* a record that keeps the first MAX_HISTORY_PER_MARKET
record_keep_oldest(h, cid, ts, yes_price, volume) ==
    LET hist == Append(HistoryOf(h, cid),
                       [ts |-> ts, yes_price |-> yes_price, volume |-> volume])
        kept == IF Len(hist) > MAX_HISTORY_PER_MARKET
                THEN SubSeq(hist, 1, MAX_HISTORY_PER_MARKET) ELSE hist
    IN  [c \in DOMAIN h \cup {cid} |-> IF c = cid THEN kept ELSE h[c]]

\* record(): append, then keep the last MAX_HISTORY_PER_MARKET
record(h, cid, ts, yes_price, volume) ==
    LET hist == Append(HistoryOf(h, cid),
                       [ts |-> ts, yes_price |-> yes_price, volume |-> volume])
        kept == IF Len(hist) > MAX_HISTORY_PER_MARKET
                THEN LastN(hist, MAX_HISTORY_PER_MARKET) ELSE hist
    IN  [c \in DOMAIN h \cup {cid} |-> IF c = cid THEN kept ELSE h[c]]

\* purge_old(): drop the histories whose last observation is older than the TTL
purge_old(h, now) ==
    LET cutoff == now - PRICE_HISTORY_TTL
        to_delete == {c \in DOMAIN h : Len(h[c]) > 0 /\ h[c][Len(h[c])].ts < cutoff}
    IN  [c \in DOMAIN h \ to_delete |-> h[c]]

(***************************************************************************)
(* Position sizing (bot.calc_position_size).                               *)
(***************************************************************************)
\* a sizing whose t grows with the price
position_size_rising(capital_disponible, yes_price, min_price, max_price) ==
    LET price_range == max_price - min_price
    IN  IF price_range <= 0
        THEN (capital_disponible * POSITION_SIZE_MAX) \div 1000
        ELSE LET t == Max(0, Min(price_range, yes_price - min_price))
                 pct == POSITION_SIZE_MIN * price_range
                        + t * (POSITION_SIZE_MAX - POSITION_SIZE_MIN)
             IN  (capital_disponible * pct) \div (price_range * 1000)

\* calc_position_size under the entry band [min_price, max_price] that the
\* configuration sets
position_size(capital_disponible, yes_price, min_price, max_price) ==
    LET price_range == max_price - min_price
    IN  IF price_range <= 0
        THEN (capital_disponible * POSITION_SIZE_MAX) \div 1000
        ELSE LET t == Max(0, Min(price_range, max_price - yes_price))
                 \* pct * price_range
                 pct == POSITION_SIZE_MIN * price_range
                        + t * (POSITION_SIZE_MAX - POSITION_SIZE_MIN)
             IN  (capital_disponible * pct) \div (price_range * 1000)

\* a size above the available capital
calc_position_size_above(capital_disponible, yes_price) ==
    capital_disponible + DUST_AMOUNT

calc_position_size(capital_disponible, yes_price) ==
    position_size(capital_disponible, yes_price, MIN_YES_PRICE, MAX_YES_PRICE)

(***************************************************************************)
(* AutoPortfolio.  pf is the portfolio object: positions (the open map, in *)
(* insertion order), closed_positions, the capital fields, the capital     *)
(* history.                                                                *)
(***************************************************************************)
OpenIds(pf) == {pf.positions[i].condition_id : i \in DOMAIN pf.positions}
ClosedIds(pf) ==
    {pf.closed_positions[i].condition_id : i \in DOMAIN pf.closed_positions}

\* self.positions[cid], for cid in self.positions
PosOf(pf, cid) ==
    pf.positions[CHOOSE i \in DOMAIN pf.positions : pf.positions[i].condition_id = cid]

\* a count test that lets one position more in
can_open_position_at_max(pf) ==
    Len(pf.positions) <= MAX_POSITIONS /\ pf.capital_disponible >= DUST_AMOUNT

can_open_position(pf) ==
    Len(pf.positions) < MAX_POSITIONS /\ pf.capital_disponible >= DUST_AMOUNT

RECURSIVE SumAllocated(_, _)
SumAllocated(ps, region) ==
    IF ps = << >> THEN 0
    ELSE (IF region = "*" \/ RegionOf(Head(ps).city) = region
          THEN Head(ps).allocated ELSE 0) + SumAllocated(Tail(ps), region)

get_region_allocated(pf, region) == SumAllocated(pf.positions, region)

\* allocated < capital_total * MAX_REGION_EXPOSURE
region_has_capacity(pf, city) ==
    get_region_allocated(pf, RegionOf(city)) * 1000
        < pf.capital_total * MAX_REGION_EXPOSURE

\* self.positions[cid] = pos: a new key goes last, an existing key keeps its place
PutPosition(ps, pos) ==
    IF \E i \in DOMAIN ps : ps[i].condition_id = pos.condition_id
    THEN [i \in DOMAIN ps |->
            IF ps[i].condition_id = pos.condition_id THEN pos ELSE ps[i]]
    ELSE Append(ps, pos)

\* del self.positions[cid]
DelPosition(ps, cid) == SelectSeq(ps, LAMBDA p : p.condition_id # cid)

\* an open that does not take the amount out of capital_disponible
open_position_free(pf, opp, amount) ==
    LET pos == [condition_id |-> opp.condition_id, city |-> opp.city,
                yes_token_id |-> opp.yes_token_id,
                entry_yes |-> opp.yes_price, current_yes |-> opp.yes_price,
                allocated |-> amount,
                tokens |-> (amount * 1000) \div opp.yes_price,
                take_profit |-> TAKE_PROFIT_YES, status |-> "OPEN", pnl |-> 0]
    IN  [pf EXCEPT !.positions = PutPosition(pf.positions, pos)]

open_position(pf, opp, amount) ==
    LET pos == [condition_id |-> opp.condition_id, city |-> opp.city,
                yes_token_id |-> opp.yes_token_id,
                entry_yes |-> opp.yes_price, current_yes |-> opp.yes_price,
                allocated |-> amount,
                tokens |-> (amount * 1000) \div opp.yes_price,
                take_profit |-> TAKE_PROFIT_YES, status |-> "OPEN", pnl |-> 0]
    IN  [pf EXCEPT !.positions = PutPosition(pf.positions, pos),
                   !.capital_disponible = pf.capital_disponible - amount]

\* a close that returns the allocated amount without the pnl
close_position_no_pnl(pf, cid, status, pnl) ==
    IF cid \notin OpenIds(pf) THEN pf
    ELSE LET pos == [PosOf(pf, cid) EXCEPT !.status = status, !.pnl = pnl]
         IN  [pf EXCEPT !.capital_disponible = pf.capital_disponible + pos.allocated,
                        !.capital_total = pf.capital_total + pnl,
                        !.closed_positions = Append(pf.closed_positions, pos),
                        !.positions = DelPosition(pf.positions, cid)]

close_position(pf, cid, status, pnl) ==
    IF cid \notin OpenIds(pf) THEN pf
    ELSE LET pos == [PosOf(pf, cid) EXCEPT !.status = status, !.pnl = pnl]
             recovered == pos.allocated + pnl
         IN  [pf EXCEPT !.capital_disponible = pf.capital_disponible + recovered,
                        !.capital_total = pf.capital_total + pnl,
                        !.closed_positions = Append(pf.closed_positions, pos),
                        !.positions = DelPosition(pf.positions, cid)]

\* pos["tokens"] * yes_price - pos["allocated"]
SalePnl(pos, yes_price) == (pos.tokens * yes_price) \div 1000 - pos.allocated

\* an exit rule that tests the take profit first
ExitRuleTakeProfitFirst(pos, yes_price, no_price) ==
    IF yes_price >= TAKE_PROFIT_YES
    THEN [status |-> "TAKE_PROFIT", pnl |-> SalePnl(pos, yes_price)]
    ELSE IF no_price >= RESOLVED_PRICE
    THEN [status |-> "LOST", pnl |-> 0 - pos.allocated]
    ELSE [status |-> "OPEN", pnl |-> 0]

\* the exit rule of apply_price_updates for one position: the status and the
\* pnl it is closed with, or "OPEN"
ExitRule(pos, yes_price, no_price) ==
    IF yes_price >= RESOLVED_PRICE
    THEN [status |-> "WON", pnl |-> SalePnl(pos, yes_price)]
    ELSE IF no_price >= RESOLVED_PRICE
    THEN [status |-> "LOST", pnl |-> 0 - pos.allocated]
    ELSE IF yes_price >= TAKE_PROFIT_YES
    THEN [status |-> "TAKE_PROFIT", pnl |-> SalePnl(pos, yes_price)]
    ELSE [status |-> "OPEN", pnl |-> 0]

\* pos["current_yes"] = yes_price
SetCurrentYes(pf, cid, yes_price) ==
    [pf EXCEPT !.positions =
        [i \in DOMAIN pf.positions |->
            IF pf.positions[i].condition_id = cid
            THEN [pf.positions[i] EXCEPT !.current_yes = yes_price]
            ELSE pf.positions[i]]]

\* the first loop of apply_price_updates: price_map is the sequence of the
\* dict's items [cid, yes, no]; yields the portfolio and the to_close list
RECURSIVE MarkPrices(_, _, _)
MarkPrices(pf, price_map, to_close) ==
    IF price_map = << >> THEN [pf |-> pf, to_close |-> to_close]
    ELSE LET e == Head(price_map)
         IN  IF e.cid \notin OpenIds(pf)
             THEN MarkPrices(pf, Tail(price_map), to_close)
             ELSE LET pf1 == SetCurrentYes(pf, e.cid, e.yes)
                      r == ExitRule(PosOf(pf1, e.cid), e.yes, e.no)
                  IN  MarkPrices(pf1, Tail(price_map),
                                 IF r.status = "OPEN" THEN to_close
                                 ELSE Append(to_close,
                                             [cid |-> e.cid, status |-> r.status,
                                              pnl |-> r.pnl]))

RECURSIVE CloseAll(_, _)
CloseAll(pf, to_close) ==
    IF to_close = << >> THEN pf
    ELSE CloseAll(close_position(pf, Head(to_close).cid, Head(to_close).status,
                                 Head(to_close).pnl),
                  Tail(to_close))

apply_price_updates(pf, price_map) ==
    LET m == MarkPrices(pf, price_map, << >>)
    IN  CloseAll(m.pf, m.to_close)

\* record_capital(): append a point, keep the last CAPITAL_HISTORY_MAX
record_capital(pf) ==
    LET h == Append(pf.capital_history, pf.capital_total)
    IN  [pf EXCEPT !.capital_history =
                      IF Len(h) > CAPITAL_HISTORY_MAX
                      THEN LastN(h, CAPITAL_HISTORY_MAX) ELSE h,
                   !.cap_record_count = pf.cap_record_count + 1]

\* AutoPortfolio.__init__
NewPortfolio(initial_capital) ==
    [capital_inicial |-> initial_capital, capital_total |-> initial_capital,
     capital_disponible |-> initial_capital, positions |-> << >>,
     closed_positions |-> << >>, capital_history |-> <<initial_capital>>,
     cap_record_count |-> 0]

\* the statements of the try block of load_state that can raise
LoadSteps == 7

\* the k-th statement of the try block of load_state on the portfolio p; db
\* is the store
LoadAssign(p, db, k) ==
    CASE k = 1 -> [p EXCEPT !.capital_inicial = db.saved.capital_inicial]
      [] k = 2 -> [p EXCEPT !.capital_total = db.saved.capital_total]
      [] k = 3 -> [p EXCEPT !.capital_disponible = db.saved.capital_disponible]
      [] k = 4 -> [p EXCEPT !.positions = db.saved.positions]
      [] k = 5 -> [p EXCEPT !.closed_positions = db.saved.closed_positions]
      [] k = 6 -> IF db.has_hist
                  THEN [p EXCEPT !.capital_history = db.saved.capital_history]
                  ELSE p
      [] OTHER -> p

\* the statements 1..k of the try block, in order
RECURSIVE LoadUpTo(_, _, _)
LoadUpTo(p, db, k) ==
    IF k = 0 THEN p ELSE LoadAssign(LoadUpTo(p, db, k - 1), db, k)

\* AutoPortfolio.load_state: db.fail_at is the statement that raises: 0 is
\* db.load_state(), which is before the try; 1..LoadSteps are the statements
\* of the try block; LoadSteps + 1 is none. The result is the portfolio, the
\* value returned and whether the exception left load_state.
load_state(p, db) ==
    IF db.fail_at = 0 THEN [pf |-> p, ok |-> FALSE, raised |-> TRUE]
    ELSE IF ~db.stored THEN [pf |-> p, ok |-> FALSE, raised |-> FALSE]
    ELSE IF db.fail_at <= LoadSteps
    THEN [pf |-> LoadUpTo(p, db, db.fail_at - 1), ok |-> FALSE, raised |-> FALSE]
    ELSE [pf |-> LoadUpTo(p, db, LoadSteps), ok |-> TRUE, raised |-> FALSE]

(***************************************************************************)
(* State.                                                                  *)
(***************************************************************************)
VARIABLES
    pf,             \* the AutoPortfolio object
    lock,           \* portfolio.lock: "free" or the thread that holds it
    scorer_lock,    \* MarketScorer._lock: "free" or the thread that holds it
    history,        \* MarketScorer._history: condition_id -> observations
    clock,          \* the time, in monitor intervals
    stop_event,     \* BotRunner._stop_event
    status,         \* BotRunner.status
    scan_count,     \* BotRunner.scan_count
    price_thread,   \* BotRunner._price_thread: a refresh worker or "none"
    cy,             \* the cycle worker (BotRunner._thread): pc and locals of _cycle
    rw,             \* the refresh workers: pc and locals of _refresh_prices
    st,             \* the thread serving /api/status
    refresh_count,  \* refresh passes begun
    env             \* what the external sources may answer

vars == <<pf, lock, scorer_lock, history, clock, stop_event, status, scan_count,
          price_thread, cy, rw, st, refresh_count, env>>

Workers == {"rw1", "rw2"}

\* the locals of _cycle before its first statement
CycleLocals ==
    [existing_ids |-> {}, opportunities |-> << >>, verify_n |-> 0, idx |-> 1,
     clob_ok |-> TRUE, clob_fails |-> 0, verified_opps |-> << >>,
     display_opps |-> << >>, pos_data |-> << >>, price_map |-> << >>,
     clob_ok_pos |-> TRUE, clob_fail_pos |-> 0,
     \* what the loops log: per candidate, whether the fast source was asked and
     \* answered ("ok", "fail", "none"); the ids of the positions opened
     fetched |-> << >>, opened |-> << >>,
     \* the same log for the positions of the re-pricing loop
     fetched_pos |-> << >>,
     \* the external calls this run of _cycle began with the stop event set
     late_calls |-> 0,
     \* whether the watchdog of this run of _cycle started a refresh worker
     restarted |-> FALSE]

CycleAt(pc) == [pc |-> pc, v |-> CycleLocals]

\* the locals of _refresh_prices before its first statement
RefreshLocals ==
    [pos_data |-> << >>, idx |-> 1, clob_ok |-> TRUE, clob_failures |-> 0,
     yes_p |-> None, source |-> "Gamma",
     \* per position, whether the fast source was asked and answered
     fetched |-> << >>,
     \* the external calls this pass began with the stop event set
     late_calls |-> 0]

RefreshAt(pc) == [pc |-> pc, v |-> RefreshLocals]

\* the count of late calls when an external call begins
Late(n) == IF stop_event THEN n + 1 ELSE n

\* threading.Thread.is_alive()
CycleAlive == cy.pc \notin {"unborn", "dead"}
WorkerAlive(w) == rw[w].pc \notin {"unborn", "dead"}

\* BotRunner.is_running
is_running == CycleAlive

\* an entry that does not wait for the lock
LockIgnored == TRUE

\* the `with portfolio.lock:` statement: entry blocks until the lock is free and
\* takes it, exit gives it back
LockFree == lock = "free"

\* an exit that keeps the lock
NotReleased(t) == t

Released(t) == "free"

RECURSIVE SetToSeq(_)
SetToSeq(S) ==
    IF S = {} THEN << >>
    ELSE LET m == CHOOSE x \in S : \A y \in S : x <= y
         IN  <<m>> \o SetToSeq(S \ {m})

\* what the sources answer: (yes_price, no_price), None for a value that is absent
MainEnv ==
    [markets |-> 1..NumMarkets,
     fast |-> {<<None, None>>, <<80, 920>>, <<160, 840>>, <<600, 400>>},
     gamma |-> {<<None, None>>, <<990, 10>>, <<5, 995>>},
     hours |-> {9, 23},
     complete |-> FALSE]

\* three markets, two of one region; the sources answer or fail
CapEnv ==
    [markets |-> 1..NumCapMarkets,
     fast |-> {<<None, None>>, <<80, 920>>},
     gamma |-> {<<None, None>>, <<160, 840>>},
     hours |-> {23},
     complete |-> FALSE]

\* enough markets for the breaker of the candidate loop
BreakerEnv ==
    [markets |-> 1..NumBreakerMarkets,
     fast |-> {<<None, None>>, <<80, 920>>, <<600, 400>>},
     gamma |-> {<<None, None>>},
     hours |-> {23},
     complete |-> TRUE]

\* the fast source always answers, sometimes with an inverted token
SanityEnv ==
    [markets |-> 1..NumMarkets,
     fast |-> {<<80, 920>>, <<600, 400>>},
     gamma |-> {<<None, None>>, <<990, 10>>},
     hours |-> {23},
     complete |-> FALSE]

\* one market besides the restored one
StatusEnv ==
    [markets |-> {NumMarkets},
     fast |-> {<<None, None>>, <<80, 920>>},
     gamma |-> {<<None, None>>, <<990, 10>>},
     hours |-> {23},
     complete |-> FALSE]

\* a portfolio that load_state restored: one position opened by an earlier run
\* under an entry band that began at 0.03
RestoredPortfolio ==
    [NewPortfolio(INITIAL_CAPITAL) EXCEPT
        !.capital_disponible = INITIAL_CAPITAL - 400,
        !.positions = <<[condition_id |-> 1, city |-> "chicago",
                         yes_token_id |-> TRUE, entry_yes |-> 40,
                         current_yes |-> 40, allocated |-> 400, tokens |-> 10000,
                         take_profit |-> TAKE_PROFIT_YES, status |-> "OPEN",
                         pnl |-> 0]>>]

\* the portfolios an earlier run may have saved
SavedPortfolios ==
    {NewPortfolio(INITIAL_CAPITAL), RestoredPortfolio,
     record_capital(RestoredPortfolio),
     record_capital(close_position(RestoredPortfolio, 1, "TAKE_PROFIT", 1100))}

\* the store at startup: whether it holds a state row, what an earlier run
\* saved, whether the capital history table has rows, and the statement of
\* load_state that raises
Stores ==
    [stored : BOOLEAN, saved : SavedPortfolios, has_hist : BOOLEAN,
     fail_at : 0..(LoadSteps + 1)]

\* no market is listed; the store is db
LoadEnv(db) ==
    [markets |-> {}, fast |-> {<<None, None>>}, gamma |-> {<<None, None>>},
     hours |-> {23}, complete |-> FALSE, db |-> db]

\* one listed market besides three restored ones; the sources answer or fail
RepriceEnv ==
    [markets |-> {5},
     fast |-> {<<None, None>>, <<80, 920>>},
     gamma |-> {<<None, None>>, <<100, 900>>},
     hours |-> {23},
     complete |-> TRUE]

\* a portfolio that load_state restored with three open positions, opened in
\* the band by an earlier run that allowed three
ThreeOpenPortfolio ==
    LET pos(m) == [condition_id |-> m, city |-> CityOf(m), yes_token_id |-> TRUE,
                   entry_yes |-> 80, current_yes |-> 80, allocated |-> 160,
                   tokens |-> 2000, take_profit |-> TAKE_PROFIT_YES,
                   status |-> "OPEN", pnl |-> 0]
    IN  [NewPortfolio(INITIAL_CAPITAL) EXCEPT
            !.capital_disponible = INITIAL_CAPITAL - 480,
            !.positions = <<pos(1), pos(2), pos(3)>>]

\* BotRunner.__init__ and MarketScorer.__init__
InitRunner ==
    /\ lock = "free"
    /\ scorer_lock = "free"
    /\ history = << >>
    /\ clock = 0
    /\ stop_event = FALSE
    /\ status = "stopped"
    /\ scan_count = 0
    /\ price_thread = "none"
    /\ cy = CycleAt("unborn")
    /\ rw = [w \in Workers |-> RefreshAt("unborn")]
    /\ st = [pc |-> "idle", count |-> 0]
    /\ refresh_count = 0

\* the state start() leaves: both workers at the head of their loops
Started ==
    /\ lock = "free"
    /\ scorer_lock = "free"
    /\ history = << >>
    /\ clock = 0
    /\ stop_event = FALSE
    /\ status = "running"
    /\ scan_count = 0
    /\ price_thread = "rw1"
    /\ cy = CycleAt("run")
    /\ rw = [w \in Workers |-> IF w = "rw1" THEN RefreshAt("loop")
                                ELSE RefreshAt("unborn")]
    /\ st = [pc |-> "idle", count |-> 0]
    /\ refresh_count = 0

\* the bot has been started on a new portfolio or on a restored one
Init ==
    /\ Started
    /\ pf \in {NewPortfolio(INITIAL_CAPITAL), RestoredPortfolio}
    /\ env = MainEnv

(***************************************************************************)
(* BotRunner.start, BotRunner.stop.                                        *)
(***************************************************************************)
\* the slot a new refresh worker takes
FreeWorker == IF ~WorkerAlive("rw1") THEN "rw1" ELSE "rw2"

\* the fields of the BotRunner that start() and stop() read and write
Runner ==
    [stop_event |-> stop_event, status |-> status, price_thread |-> price_thread,
     cy |-> cy, rw |-> rw]

\* a start that does not test is_running
start_always(r) ==
    LET w == IF r.rw["rw1"].pc \in {"unborn", "dead"} THEN "rw1" ELSE "rw2"
    IN  [r EXCEPT !.stop_event = FALSE, !.cy = CycleAt("run"),
                  !.price_thread = w, !.rw[w] = RefreshAt("loop"),
                  !.status = "running"]

\* start(): nothing when the cycle worker is alive; otherwise the event is
\* cleared, both workers are created and started, status is "running"
start(r) ==
    IF r.cy.pc \notin {"unborn", "dead"} THEN r
    ELSE LET w == IF r.rw["rw1"].pc \in {"unborn", "dead"} THEN "rw1" ELSE "rw2"
         IN  [r EXCEPT !.stop_event = FALSE, !.cy = CycleAt("run"),
                       !.price_thread = w, !.rw[w] = RefreshAt("loop"),
                       !.status = "running"]

\* stop(): the event is set, status is "stopped"
stop(r) == [r EXCEPT !.stop_event = TRUE, !.status = "stopped"]

\* a call of start(), while a slot is left for a refresh worker it creates
Start ==
    /\ is_running \/ \E w \in Workers : ~WorkerAlive(w)
    /\ LET r == start(Runner)
       IN  /\ stop_event' = r.stop_event
           /\ cy' = r.cy
           /\ price_thread' = r.price_thread
           /\ rw' = r.rw
           /\ status' = r.status
    /\ UNCHANGED <<pf, lock, history, clock, scan_count, st,
                   refresh_count, env, scorer_lock>>

\* a call of stop()
Stop ==
    /\ LET r == stop(Runner)
       IN  /\ stop_event' = r.stop_event
           /\ status' = r.status
    /\ UNCHANGED <<pf, lock, history, clock, scan_count,
                   price_thread, cy, rw, st, refresh_count, env, scorer_lock>>

(***************************************************************************)
(* The cycle worker: BotRunner._run and BotRunner._cycle.                  *)
(***************************************************************************)
\* no sanity check
SanityOff(r) == r

\* the fast source's answer after the sanity check: a YES price above 0.50 is
\* dropped as an inverted token
Sanity(r) == IF r[1] # None /\ r[1] > SANITY_MAX_YES THEN <<None, None>> ELSE r

\* an exclusion set of the open ids alone
ExclusionSetOpenOnly(p) == OpenIds(p)

\* existing_ids: the open ids and the closed ids
ExclusionSet(p) == OpenIds(p) \cup {c \in ClosedIds(p) : c # 0}

\* return from _cycle, back in _run at the wait
CycleReturn == CycleAt("wait")

\* while not self._stop_event.is_set()
RunCheck ==
    /\ cy.pc = "run"
    /\ stop_event \/ scan_count < MaxCycles
    /\ cy' = IF stop_event THEN CycleAt("dead") ELSE [cy EXCEPT !.pc = "cycle"]
    /\ UNCHANGED <<pf, lock, history, clock, stop_event, status, scan_count, price_thread, rw, st, refresh_count, env,
                   scorer_lock>>

\* scan_count += 1 without the watchdog
CycleBeginNoWatchdog ==
    /\ cy.pc = "cycle"
    /\ scan_count' = scan_count + 1
    /\ cy' = [cy EXCEPT !.pc = "ids_lock"]
    /\ UNCHANGED <<pf, lock, history, clock, stop_event, status, price_thread, rw,
                   st, refresh_count, env, scorer_lock>>

\* scan_count += 1 and the watchdog
CycleBegin ==
    /\ cy.pc = "cycle"
    /\ scan_count' = scan_count + 1
    /\ IF price_thread # "none" /\ ~WorkerAlive(price_thread)
       THEN /\ price_thread' = FreeWorker
            /\ rw' = [rw EXCEPT ![FreeWorker] = RefreshAt("loop")]
            /\ cy' = [cy EXCEPT !.pc = "ids_lock", !.v.restarted = TRUE]
       ELSE /\ UNCHANGED <<price_thread, rw>>
            /\ cy' = [cy EXCEPT !.pc = "ids_lock"]
    /\ UNCHANGED <<pf, lock, history, clock, stop_event, status, st, refresh_count, env, scorer_lock>>

\* 1. with portfolio.lock: (entry)
IdsLock ==
    /\ cy.pc = "ids_lock"
    /\ LockFree
    /\ lock' = "cycle"
    /\ cy' = [cy EXCEPT !.pc = "ids"]
    /\ UNCHANGED <<pf, history, clock, stop_event, status, scan_count, price_thread, rw, st, refresh_count, env,
                   scorer_lock>>

Ids ==
    /\ cy.pc = "ids"
    /\ cy' = [cy EXCEPT !.pc = "scan", !.v.existing_ids = ExclusionSet(pf),
                        !.v.late_calls = Late(cy.v.late_calls)]
    /\ lock' = Released("cycle")
    /\ UNCHANGED <<pf, history, clock, stop_event, status, scan_count, price_thread, rw, st, refresh_count, env,
                   scorer_lock>>

\* what scan_opportunities(existing_ids) may list: markets it knows that are
\* not excluded, all of them when the source is complete
Listings(e, existing_ids) ==
    IF e.complete THEN {e.markets \ existing_ids}
    ELSE SUBSET (e.markets \ existing_ids)

\* 2. scan_opportunities(existing_ids) answers: distinct markets, none excluded
ScanReturn ==
    /\ cy.pc = "scan"
    /\ \E S \in Listings(env, cy.v.existing_ids) :
         cy' = [cy EXCEPT !.pc = "count_lock",
                          !.v.opportunities =
                              [i \in 1..Cardinality(S) |-> Opportunity(SetToSeq(S)[i])]]
    /\ UNCHANGED <<pf, lock, history, clock, stop_event, status, scan_count, price_thread, rw, st, refresh_count, env,
                   scorer_lock>>

\* 3. with portfolio.lock: open_count
CountLock ==
    /\ cy.pc = "count_lock"
    /\ LockFree
    /\ lock' = "cycle"
    /\ cy' = [cy EXCEPT !.pc = "count"]
    /\ UNCHANGED <<pf, history, clock, stop_event, status, scan_count, price_thread, rw, st, refresh_count, env,
                   scorer_lock>>

Count ==
    /\ cy.pc = "count"
    /\ LET slots_available == Max(0, MAX_POSITIONS - Len(pf.positions))
       IN  cy' = [cy EXCEPT !.pc = "verify", !.v.idx = 1,
                            !.v.verify_n = Min(Len(cy.v.opportunities),
                                               Max(slots_available, MAX_CLOB_VERIFY))]
    /\ lock' = Released("cycle")
    /\ UNCHANGED <<pf, history, clock, stop_event, status, scan_count, price_thread, rw, st, refresh_count, env,
                   scorer_lock>>

Unscored(opp) == [condition_id |-> opp.condition_id, score |-> 0, zone |-> "-"]

\* the candidate loop has gone through candidates: display_opps is completed
\* with the candidates that were not verified, and is what last_opportunities
\* shows (its first DISPLAY_MAX entries)
VerifyDone ==
    /\ cy.pc = "verify"
    /\ cy.v.idx > cy.v.verify_n
    /\ LET room == DISPLAY_MAX - Len(cy.v.display_opps)
           rest == SubSeq(cy.v.opportunities, cy.v.verify_n + 1,
                          Min(Len(cy.v.opportunities), cy.v.verify_n + room))
           display == cy.v.display_opps \o [i \in DOMAIN rest |-> Unscored(rest[i])]
       IN  cy' = [cy EXCEPT !.pc = "pos_lock",
                            !.v.display_opps =
                                SubSeq(display, 1, Min(DISPLAY_MAX, Len(display)))]
    /\ UNCHANGED <<pf, lock, history, clock, stop_event, status, scan_count,
                   price_thread, rw, st, refresh_count, env, scorer_lock>>

\* if self._stop_event.is_set(): return
VerifyStopped ==
    /\ cy.pc = "verify"
    /\ cy.v.idx <= cy.v.verify_n
    /\ stop_event
    /\ cy' = CycleReturn
    /\ UNCHANGED <<pf, lock, history, clock, stop_event, status, scan_count, price_thread, rw, st, refresh_count, env,
                   scorer_lock>>

\* the next candidate: if clob_ok and yes_tid, fetch_yes_price_clob(yes_tid) is
\* called; otherwise rt_yes stays None and the candidate is listed unscored
VerifyNext ==
    /\ cy.pc = "verify"
    /\ cy.v.idx <= cy.v.verify_n
    /\ ~stop_event
    /\ IF cy.v.clob_ok /\ cy.v.opportunities[cy.v.idx].yes_token_id
       THEN cy' = [cy EXCEPT !.pc = "clob", !.v.late_calls = Late(cy.v.late_calls)]
       ELSE cy' = [cy EXCEPT !.v.idx = cy.v.idx + 1,
                             !.v.fetched = Append(cy.v.fetched, "none"),
                             !.v.display_opps =
                                 Append(cy.v.display_opps,
                                        Unscored(cy.v.opportunities[cy.v.idx]))]
    /\ UNCHANGED <<pf, lock, history, clock, stop_event, status, scan_count,
                   price_thread, rw, st, refresh_count, env, scorer_lock>>

\* a breaker that waits for one failure more
BreakerOpenLate(fails) == fails > CLOB_FAIL_LIMIT

\* the breaker of the candidate loop after a failed fetch
BreakerOpen(fails) == fails >= CLOB_FAIL_LIMIT

\* a gate that does not look at the score
EntryGatePriceOnly(rt_yes, score_total) ==
    MIN_YES_PRICE <= rt_yes /\ rt_yes <= MAX_YES_PRICE

\* the entry gate
EntryGate(rt_yes, score_total) ==
    /\ MIN_YES_PRICE <= rt_yes /\ rt_yes <= MAX_YES_PRICE
    /\ score_total >= MIN_ENTRY_SCORE

\* fetch_yes_price_clob answers r; the rest of the loop body
ClobReturn ==
    /\ cy.pc = "clob"
    /\ \E r \in env.fast, utc_hour \in env.hours :
         LET opp == cy.v.opportunities[cy.v.idx]
             rt == Sanity(r)
             fails == IF rt[1] = None THEN cy.v.clob_fails + 1 ELSE cy.v.clob_fails
             ok == IF rt[1] = None /\ BreakerOpen(fails) THEN FALSE ELSE cy.v.clob_ok
         IN  IF rt[1] = None
             THEN /\ cy' = [cy EXCEPT !.pc = "verify", !.v.idx = cy.v.idx + 1,
                                      !.v.clob_fails = fails, !.v.clob_ok = ok,
                                      !.v.fetched = Append(cy.v.fetched, "fail"),
                                      !.v.display_opps =
                                          Append(cy.v.display_opps, Unscored(opp))]
                  /\ UNCHANGED history
             ELSE LET h == record(history, opp.condition_id, clock, rt[1], opp.volume)
                      \* rt_no or round(1 - rt_yes, 4)
                      opp2 == [opp EXCEPT !.yes_price = rt[1],
                                          !.no_price = IF rt[2] # None /\ rt[2] # 0
                                                       THEN rt[2] ELSE 1000 - rt[1]]
                      sc == score(HistoryOf(h, opp.condition_id), opp.city, utc_hour)
                  \* record and score each take and give back the scorer's lock
                  IN  /\ scorer_lock = "free"
                      /\ history' = h
                      /\ cy' = [cy EXCEPT
                               !.pc = "verify", !.v.idx = cy.v.idx + 1,
                               !.v.fetched = Append(cy.v.fetched, "ok"),
                               !.v.display_opps =
                                   Append(cy.v.display_opps,
                                          [condition_id |-> opp.condition_id,
                                           score |-> sc.total, zone |-> sc.zone]),
                               !.v.verified_opps =
                                   IF EntryGate(rt[1], sc.total)
                                   THEN Append(cy.v.verified_opps, opp2)
                                   ELSE cy.v.verified_opps]
    /\ UNCHANGED <<pf, lock, clock, stop_event, status, scan_count, price_thread, rw, st, refresh_count, env,
                   scorer_lock>>

\* 4. with portfolio.lock: pos_data
PosLock ==
    /\ cy.pc = "pos_lock"
    /\ LockFree
    /\ lock' = "cycle"
    /\ cy' = [cy EXCEPT !.pc = "pos"]
    /\ UNCHANGED <<pf, history, clock, stop_event, status, scan_count, price_thread, rw, st, refresh_count, env,
                   scorer_lock>>

\* [(cid, pos.get("yes_token_id"), pos.get("slug")) for ... in positions.items()]
PosData(p) ==
    [i \in DOMAIN p.positions |->
        [cid |-> p.positions[i].condition_id,
         yes_tid |-> p.positions[i].yes_token_id]]

Pos ==
    /\ cy.pc = "pos"
    /\ cy' = [cy EXCEPT !.pc = "reprice", !.v.idx = 1, !.v.pos_data = PosData(pf)]
    /\ lock' = Released("cycle")
    /\ UNCHANGED <<pf, history, clock, stop_event, status, scan_count, price_thread, rw, st, refresh_count, env,
                   scorer_lock>>

RepriceDone ==
    /\ cy.pc = "reprice"
    /\ cy.v.idx > Len(cy.v.pos_data)
    /\ cy' = [cy EXCEPT !.pc = "cs_lock"]
    /\ UNCHANGED <<pf, lock, history, clock, stop_event, status, scan_count, price_thread, rw, st, refresh_count, env,
                   scorer_lock>>

RepriceStopped ==
    /\ cy.pc = "reprice"
    /\ cy.v.idx <= Len(cy.v.pos_data)
    /\ stop_event
    /\ cy' = CycleReturn
    /\ UNCHANGED <<pf, lock, history, clock, stop_event, status, scan_count, price_thread, rw, st, refresh_count, env,
                   scorer_lock>>

\* a re-pricing loop that does not test the stop event
RepriceFetchDeaf ==
    /\ cy.pc = "reprice"
    /\ cy.v.idx <= Len(cy.v.pos_data)
    /\ cy' = [cy EXCEPT !.pc = IF cy.v.clob_ok_pos /\ cy.v.pos_data[cy.v.idx].yes_tid
                               THEN "rp_clob" ELSE "rp_gamma",
                        !.v.fetched_pos =
                            IF cy.v.clob_ok_pos /\ cy.v.pos_data[cy.v.idx].yes_tid
                            THEN cy.v.fetched_pos
                            ELSE Append(cy.v.fetched_pos, "none"),
                        !.v.late_calls = Late(cy.v.late_calls)]
    /\ UNCHANGED <<pf, lock, history, clock, stop_event, status, scan_count,
                   price_thread, rw, st, refresh_count, env, scorer_lock>>

\* the next call of the iteration: the fast source, or the fallback at once
RepriceFetch ==
    /\ cy.pc = "reprice"
    /\ cy.v.idx <= Len(cy.v.pos_data)
    /\ ~stop_event
    /\ cy' = [cy EXCEPT !.pc = IF cy.v.clob_ok_pos /\ cy.v.pos_data[cy.v.idx].yes_tid
                               THEN "rp_clob" ELSE "rp_gamma",
                        !.v.fetched_pos =
                            IF cy.v.clob_ok_pos /\ cy.v.pos_data[cy.v.idx].yes_tid
                            THEN cy.v.fetched_pos
                            ELSE Append(cy.v.fetched_pos, "none"),
                        !.v.late_calls = Late(cy.v.late_calls)]
    /\ UNCHANGED <<pf, lock, history, clock, stop_event, status, scan_count, price_thread, rw, st, refresh_count, env,
                   scorer_lock>>

\* the breaker of the cycle's re-pricing loop after a failed fetch
BreakerOpenPos(fails) == fails >= CLOB_FAIL_LIMIT_POS

\* if yes_p is not None and no_p is not None: price_map[cid] = (yes_p, no_p)
PriceMapPut(price_map, cid, r, src) ==
    IF r[1] # None /\ r[2] # None
    THEN Append(price_map, [cid |-> cid, yes |-> r[1], no |-> r[2], src |-> src])
    ELSE price_map

RpClobReturn ==
    /\ cy.pc = "rp_clob"
    /\ \E r \in env.fast :
         LET rt == Sanity(r)
             fails == cy.v.clob_fail_pos + 1
         IN  IF rt[1] = None
             THEN cy' = [cy EXCEPT !.pc = "rp_gamma", !.v.clob_fail_pos = fails,
                                   !.v.fetched_pos = Append(cy.v.fetched_pos, "fail"),
                                   !.v.late_calls = Late(cy.v.late_calls),
                                   !.v.clob_ok_pos = IF BreakerOpenPos(fails)
                                                     THEN FALSE ELSE cy.v.clob_ok_pos]
             ELSE cy' = [cy EXCEPT !.pc = "reprice", !.v.idx = cy.v.idx + 1,
                                   !.v.fetched_pos = Append(cy.v.fetched_pos, "ok"),
                                   !.v.price_map =
                                       PriceMapPut(cy.v.price_map,
                                                   cy.v.pos_data[cy.v.idx].cid, rt, "CLOB")]
    /\ UNCHANGED <<pf, lock, history, clock, stop_event, status, scan_count, price_thread, rw, st, refresh_count, env,
                   scorer_lock>>

\* fetch_live_prices(slug) answers r
RpGammaReturn ==
    /\ cy.pc = "rp_gamma"
    /\ \E r \in env.gamma :
         cy' = [cy EXCEPT !.pc = "reprice", !.v.idx = cy.v.idx + 1,
                          !.v.price_map =
                              PriceMapPut(cy.v.price_map,
                                          cy.v.pos_data[cy.v.idx].cid, r, "Gamma")]
    /\ UNCHANGED <<pf, lock, history, clock, stop_event, status, scan_count, price_thread, rw, st, refresh_count, env,
                   scorer_lock>>

\* 5. with portfolio.lock: (entry of the critical section)
CsLock ==
    /\ cy.pc = "cs_lock"
    /\ LockFree
    /\ lock' = "cycle"
    /\ cy' = [cy EXCEPT !.pc = "cs_open", !.v.idx = 1]
    /\ UNCHANGED <<pf, history, clock, stop_event, status, scan_count, price_thread, rw, st, refresh_count, env,
                   scorer_lock>>

\* one iteration of `for opp in verified_opps`
CsOpen ==
    /\ cy.pc = "cs_open"
    /\ IF cy.v.idx > Len(cy.v.verified_opps) \/ ~can_open_position(pf)
       THEN /\ cy' = [cy EXCEPT !.pc = "cs_apply"]
            /\ UNCHANGED pf
       ELSE LET opp == cy.v.verified_opps[cy.v.idx]
                amount == calc_position_size(pf.capital_disponible, opp.yes_price)
            IN  IF region_has_capacity(pf, opp.city) /\ amount >= DUST_AMOUNT
                \* scorer.score(...) for the log line takes the scorer's lock
                THEN /\ scorer_lock = "free"
                     /\ pf' = open_position(pf, opp, amount)
                     /\ cy' = [cy EXCEPT !.v.idx = cy.v.idx + 1,
                                         !.v.opened = Append(cy.v.opened,
                                                             opp.condition_id)]
                ELSE /\ cy' = [cy EXCEPT !.v.idx = cy.v.idx + 1]
                     /\ UNCHANGED pf
    /\ UNCHANGED <<lock, history, clock, stop_event, status, scan_count, price_thread, rw, st, refresh_count, env,
                   scorer_lock>>

\* if price_map: portfolio.apply_price_updates(price_map)
CsApply ==
    /\ cy.pc = "cs_apply"
    /\ pf' = IF cy.v.price_map # << >> THEN apply_price_updates(pf, cy.v.price_map)
             ELSE pf
    /\ cy' = [cy EXCEPT !.pc = "cs_liq"]
    /\ UNCHANGED <<lock, history, clock, stop_event, status, scan_count, price_thread, rw, st, refresh_count, env,
                   scorer_lock>>

\* a test that finds every entry price in the band
OutOfBandNever(entry_yes) == FALSE

\* if not (MIN_YES_PRICE <= entry_yes <= MAX_YES_PRICE)
OutOfBand(entry_yes) ==
    ~(MIN_YES_PRICE <= entry_yes /\ entry_yes <= MAX_YES_PRICE)

\* the auto-liquidation loop over list(portfolio.positions.items())
RECURSIVE AutoLiquidate(_, _)
AutoLiquidate(p, items) ==
    IF items = << >> THEN p
    ELSE LET pos == Head(items)
         IN  IF OutOfBand(pos.entry_yes)
             THEN AutoLiquidate(close_position(p, pos.condition_id, "LIQUIDATED",
                                               SalePnl(pos, pos.current_yes)),
                                Tail(items))
             ELSE AutoLiquidate(p, Tail(items))

CsLiquidate ==
    /\ cy.pc = "cs_liq"
    /\ pf' = AutoLiquidate(pf, pf.positions)
    /\ cy' = [cy EXCEPT !.pc = "cs_record"]
    /\ UNCHANGED <<lock, history, clock, stop_event, status, scan_count, price_thread, rw, st, refresh_count, env,
                   scorer_lock>>

\* portfolio.record_capital() and the exit of the with block
CsRecord ==
    /\ cy.pc = "cs_record"
    /\ pf' = record_capital(pf)
    /\ lock' = Released("cycle")
    /\ cy' = [cy EXCEPT !.pc = "purge"]
    /\ UNCHANGED <<history, clock, stop_event, status, scan_count, price_thread, rw, st, refresh_count, env,
                   scorer_lock>>

\* scorer.purge_old(), the last statement of _cycle
Purge ==
    /\ cy.pc = "purge"
    /\ scorer_lock = "free"
    /\ history' = purge_old(history, clock)
    /\ cy' = CycleReturn
    /\ UNCHANGED <<pf, lock, clock, stop_event, status, scan_count, price_thread, rw, st, refresh_count, env,
                   scorer_lock>>

\* self._stop_event.wait(MONITOR_INTERVAL) returns
Wait ==
    /\ cy.pc = "wait"
    /\ clock' = clock + 1
    /\ cy' = [cy EXCEPT !.pc = "run"]
    /\ UNCHANGED <<pf, lock, history, stop_event, status, scan_count, price_thread, rw, st, refresh_count, env,
                   scorer_lock>>

(***************************************************************************)
(* A refresh worker: BotRunner._run_prices and BotRunner._refresh_prices.  *)
(***************************************************************************)
\* a refresh loop that does not test the stop event
RefreshWakeDeaf(w) ==
    /\ rw[w].pc = "loop"
    /\ refresh_count < MaxRefresh
    /\ rw' = [rw EXCEPT ![w].pc = "pos_lock"]
    /\ refresh_count' = refresh_count + 1
    /\ UNCHANGED <<pf, lock, history, clock, stop_event, status, scan_count,
                   price_thread, cy, st, env, scorer_lock>>

\* one turn of `while not self._stop_event.is_set()`: the wait of
\* PRICE_UPDATE_INTERVAL returns, and the loop ends when the event is set
RefreshWake(w) ==
    /\ rw[w].pc = "loop"
    /\ stop_event \/ refresh_count < MaxRefresh
    /\ IF stop_event
       THEN /\ rw' = [rw EXCEPT ![w] = RefreshAt("dead")]
            /\ UNCHANGED refresh_count
       ELSE /\ rw' = [rw EXCEPT ![w].pc = "pos_lock"]
            /\ refresh_count' = refresh_count + 1
    /\ UNCHANGED <<pf, lock, history, clock, stop_event, status, scan_count,
                   price_thread, cy, st, env, scorer_lock>>

RefreshPosLock(w) ==
    /\ rw[w].pc = "pos_lock"
    /\ LockFree
    /\ lock' = w
    /\ rw' = [rw EXCEPT ![w].pc = "pos"]
    /\ UNCHANGED <<pf, history, clock, stop_event, status, scan_count, price_thread, cy, st, refresh_count, env,
                   scorer_lock>>

RefreshPos(w) ==
    /\ rw[w].pc = "pos"
    /\ rw' = [rw EXCEPT ![w].pc = "iter", ![w].v.idx = 1,
                        ![w].v.pos_data = PosData(pf)]
    /\ lock' = Released(w)
    /\ UNCHANGED <<pf, history, clock, stop_event, status, scan_count, price_thread, cy, st, refresh_count, env,
                   scorer_lock>>

\* the loop is over, or the stop event is set: _refresh_prices returns
RefreshDone(w) ==
    /\ rw[w].pc = "iter"
    /\ rw[w].v.idx > Len(rw[w].v.pos_data) \/ stop_event
    /\ rw' = [rw EXCEPT ![w] = RefreshAt("loop")]
    /\ UNCHANGED <<pf, lock, history, clock, stop_event, status, scan_count, price_thread, cy, st, refresh_count, env,
                   scorer_lock>>

RefreshFetch(w) ==
    /\ rw[w].pc = "iter"
    /\ rw[w].v.idx <= Len(rw[w].v.pos_data)
    /\ ~stop_event
    /\ rw' = [rw EXCEPT ![w].pc = IF rw[w].v.clob_ok /\ rw[w].v.pos_data[rw[w].v.idx].yes_tid
                                  THEN "clob" ELSE "gamma",
                        ![w].v.fetched =
                            IF rw[w].v.clob_ok /\ rw[w].v.pos_data[rw[w].v.idx].yes_tid
                            THEN rw[w].v.fetched
                            ELSE Append(rw[w].v.fetched, "none"),
                        ![w].v.late_calls = Late(rw[w].v.late_calls),
                        ![w].v.yes_p = None, ![w].v.source = "Gamma"]
    /\ UNCHANGED <<pf, lock, history, clock, stop_event, status, scan_count, price_thread, cy, st, refresh_count, env,
                   scorer_lock>>

\* the failure count of the refresh loop after the fast source answered yes_p
RefreshFailures(failures, yes_p) ==
    IF yes_p # None /\ yes_p <= SANITY_MAX_YES THEN 0 ELSE failures + 1

BreakerOpenRefresh(fails) == fails >= CLOB_FAIL_LIMIT_REFRESH

RefreshClobReturn(w) ==
    /\ rw[w].pc = "clob"
    /\ \E r \in env.fast :
         LET rt == Sanity(r)
             fails == RefreshFailures(rw[w].v.clob_failures, r[1])
         IN  rw' = [rw EXCEPT
                      ![w].pc = IF rt[1] = None THEN "gamma" ELSE "write_lock",
                      ![w].v.yes_p = rt[1],
                      ![w].v.late_calls = IF rt[1] = None THEN Late(rw[w].v.late_calls)
                                          ELSE rw[w].v.late_calls,
                      ![w].v.source = IF rt[1] = None THEN "Gamma" ELSE "CLOB",
                      ![w].v.fetched = Append(rw[w].v.fetched,
                                              IF rt[1] = None THEN "fail" ELSE "ok"),
                      ![w].v.clob_failures = fails,
                      ![w].v.clob_ok = IF BreakerOpenRefresh(fails) THEN FALSE
                                       ELSE rw[w].v.clob_ok]
    /\ UNCHANGED <<pf, lock, history, clock, stop_event, status, scan_count, price_thread, cy, st, refresh_count, env,
                   scorer_lock>>

\* fetch_live_prices(slug) answers r; if yes_p is None: continue
RefreshGammaReturn(w) ==
    /\ rw[w].pc = "gamma"
    /\ \E r \in env.gamma :
         rw' = [rw EXCEPT
                  ![w].pc = IF r[1] = None THEN "iter" ELSE "write_lock",
                  ![w].v.idx = IF r[1] = None THEN rw[w].v.idx + 1 ELSE rw[w].v.idx,
                  ![w].v.yes_p = r[1]]
    /\ UNCHANGED <<pf, lock, history, clock, stop_event, status, scan_count, price_thread, cy, st, refresh_count, env,
                   scorer_lock>>

RefreshWriteLock(w) ==
    /\ rw[w].pc = "write_lock"
    /\ LockFree
    /\ lock' = w
    /\ rw' = [rw EXCEPT ![w].pc = "write"]
    /\ UNCHANGED <<pf, history, clock, stop_event, status, scan_count, price_thread, cy, st, refresh_count, env,
                   scorer_lock>>

\* a write that also reaches the record of a closed position
RefreshWriteClosed(w) ==
    /\ rw[w].pc = "write"
    /\ LET cid == rw[w].v.pos_data[rw[w].v.idx].cid
       IN  pf' = IF cid \in OpenIds(pf) THEN SetCurrentYes(pf, cid, rw[w].v.yes_p)
                 ELSE [pf EXCEPT !.closed_positions =
                          [j \in DOMAIN pf.closed_positions |->
                              IF pf.closed_positions[j].condition_id = cid
                              THEN [pf.closed_positions[j] EXCEPT
                                       !.current_yes = rw[w].v.yes_p]
                              ELSE pf.closed_positions[j]]]
    /\ lock' = Released(w)
    /\ rw' = [rw EXCEPT ![w].pc = "iter", ![w].v.idx = rw[w].v.idx + 1,
                        ![w].v.yes_p = None, ![w].v.source = "Gamma"]
    /\ UNCHANGED <<history, clock, stop_event, status, scan_count, price_thread,
                   cy, st, refresh_count, env, scorer_lock>>

\* if cid in self.portfolio.positions: pos["current_yes"] = yes_p
RefreshWrite(w) ==
    /\ rw[w].pc = "write"
    /\ LET cid == rw[w].v.pos_data[rw[w].v.idx].cid
       IN  pf' = IF cid \in OpenIds(pf) THEN SetCurrentYes(pf, cid, rw[w].v.yes_p)
                 ELSE pf
    /\ lock' = Released(w)
    /\ rw' = [rw EXCEPT ![w].pc = "iter", ![w].v.idx = rw[w].v.idx + 1,
                        ![w].v.yes_p = None, ![w].v.source = "Gamma"]
    /\ UNCHANGED <<history, clock, stop_event, status, scan_count, price_thread, cy, st, refresh_count, env,
                   scorer_lock>>

\* the worker's thread ends on an error that `except Exception` does not
\* catch; a with block it is in gives the lock back
RefreshCrash(w) ==
    /\ WorkerAlive(w)
    /\ rw' = [rw EXCEPT ![w] = RefreshAt("dead")]
    /\ lock' = IF lock = w THEN "free" ELSE lock
    /\ UNCHANGED <<pf, history, clock, stop_event, status, scan_count,
                   price_thread, cy, st, refresh_count, env, scorer_lock>>

\* an error in _cycle that ends the thread
CycleRaiseUncaught ==
    /\ cy.pc \notin {"unborn", "dead", "run", "wait", "cycle"}
    /\ cy' = CycleAt("dead")
    /\ lock' = IF lock = "cycle" THEN Released("cycle") ELSE lock
    /\ UNCHANGED <<pf, history, clock, stop_event, status, scan_count,
                   price_thread, rw, st, refresh_count, env, scorer_lock>>

\* a statement of _cycle, after scan_count += 1, raises an Exception: a with
\* block it is in gives the lock back, `except Exception` in _run logs it and
\* the loop goes on to its wait
CycleRaise ==
    /\ cy.pc \notin {"unborn", "dead", "run", "wait", "cycle"}
    /\ cy' = CycleReturn
    /\ lock' = IF lock = "cycle" THEN Released("cycle") ELSE lock
    /\ UNCHANGED <<pf, history, clock, stop_event, status, scan_count,
                   price_thread, rw, st, refresh_count, env, scorer_lock>>

\* a statement of _refresh_prices raises an Exception: a with block it is in
\* gives the lock back, `except Exception` in _run_prices logs it and the loop
\* goes on to its next turn
RefreshRaise(w) ==
    /\ rw[w].pc \notin {"unborn", "dead", "loop"}
    /\ rw' = [rw EXCEPT ![w] = RefreshAt("loop")]
    /\ lock' = IF lock = w THEN Released(w) ELSE lock
    /\ UNCHANGED <<pf, history, clock, stop_event, status, scan_count,
                   price_thread, cy, st, refresh_count, env, scorer_lock>>

(***************************************************************************)
(* The startup load: portfolio.load_state() on a new AutoPortfolio.        *)
(***************************************************************************)
\* the application thread calls load_state once; st.pc tells how the call
\* ended: True ("loaded"), False ("fresh"), or with the exception ("crashed")
LoadState ==
    /\ st.pc = "boot"
    /\ LET r == load_state(pf, env.db)
       IN  /\ pf' = r.pf
           /\ st' = [st EXCEPT !.pc = IF r.raised THEN "crashed"
                                      ELSE IF r.ok THEN "loaded" ELSE "fresh"]
    /\ UNCHANGED <<lock, history, clock, stop_event, status, scan_count,
                   price_thread, cy, rw, refresh_count, env, scorer_lock>>

(***************************************************************************)
(* Calls of AutoPortfolio._close_position with any id.                     *)
(***************************************************************************)
\* a close that realizes the pnl of an id that is not open
CloseCallUnguarded(cid, close_status, pnl) ==
    /\ Len(st.calls) < MaxCloseCalls
    /\ pf' = IF cid \in OpenIds(pf) THEN close_position(pf, cid, close_status, pnl)
             ELSE [pf EXCEPT !.capital_total = pf.capital_total + pnl,
                             !.capital_disponible = pf.capital_disponible + pnl]
    /\ st' = [st EXCEPT !.calls = Append(st.calls, cid)]
    /\ UNCHANGED <<lock, history, clock, stop_event, status, scan_count,
                   price_thread, cy, rw, refresh_count, env, scorer_lock>>

\* _close_position(cid, status, pnl); st.calls is the list of the ids it was
\* called with
CloseCall(cid, close_status, pnl) ==
    /\ Len(st.calls) < MaxCloseCalls
    /\ pf' = close_position(pf, cid, close_status, pnl)
    /\ st' = [st EXCEPT !.calls = Append(st.calls, cid)]
    /\ UNCHANGED <<lock, history, clock, stop_event, status, scan_count,
                   price_thread, cy, rw, refresh_count, env, scorer_lock>>

(***************************************************************************)
(* Sizing and opening a position at any price, under the configured band.  *)
(***************************************************************************)
\* amount = calc_position_size(portfolio.capital_disponible, opp["yes_price"]);
\* if amount >= 0.50: portfolio.open_position(opp, amount)
SizeCall(m, yes_price) ==
    /\ m \notin OpenIds(pf)
    /\ LET amount == position_size(pf.capital_disponible, yes_price,
                                   env.min_price, env.max_price)
       IN  pf' = IF amount >= DUST_AMOUNT
                 THEN open_position(pf, [Opportunity(m) EXCEPT !.yes_price = yes_price],
                                    amount)
                 ELSE pf
    /\ UNCHANGED <<lock, history, clock, stop_event, status, scan_count,
                   price_thread, cy, rw, st, refresh_count, env, scorer_lock>>

(***************************************************************************)
(* Calls of MarketScorer: record, score, get_all_scores, purge_old.        *)
(* st.log[m] lists the observations recorded for market m since its        *)
(* history was last deleted; st.count counts the calls of record.          *)
(***************************************************************************)
\* scorer.record(m, yes_price, volume, city) at the time clock; market 1 is
\* followed up to the cap, the other markets are recorded in the first calls
\* only
RecordCall(m, yes_price) ==
    /\ st.count < MaxRecords
    /\ m = 1 \/ st.count < 2
    /\ scorer_lock = "free"
    /\ history' = record(history, m, clock, yes_price, VolumeOf(m))
    /\ clock' = clock + 1
    /\ st' = [st EXCEPT !.count = st.count + 1,
                        !.log[m] = Append(st.log[m],
                                          [ts |-> clock, yes_price |-> yes_price,
                                           volume |-> VolumeOf(m)])]
    /\ UNCHANGED <<pf, lock, stop_event, status, scan_count, price_thread, cy, rw,
                   refresh_count, env, scorer_lock>>

\* scorer.score(m, city) and scorer.get_all_scores(): the history is read
ScoreCall(m) ==
    /\ scorer_lock = "free"
    /\ score(HistoryOf(history, m), CityOf(m), 23).observations
           = Len(HistoryOf(history, m))
    /\ UNCHANGED vars

\* scorer.purge_old() at the time clock
PurgeCall ==
    /\ scorer_lock = "free"
    /\ history' = purge_old(history, clock)
    /\ st' = [st EXCEPT !.log = [m \in DOMAIN st.log |->
                                    IF m \in DOMAIN history'
                                    THEN st.log[m] ELSE << >>]]
    /\ UNCHANGED <<pf, lock, clock, stop_event, status, scan_count, price_thread,
                   cy, rw, refresh_count, env, scorer_lock>>

\* scorer.record(...) and then scorer.score(...), as the candidate loop calls
\* them for one market; st.last is what score returned
ScoredRecord(m, yes_price, utc_hour) ==
    /\ history = << >> \/ m \in DOMAIN history
    /\ Len(HistoryOf(history, m)) < MaxScoreRecords
    /\ scorer_lock = "free"
    /\ history' = record(history, m, clock, yes_price, VolumeOf(m))
    /\ st' = [st EXCEPT !.count = st.count + 1,
                        !.last = score(HistoryOf(history', m), CityOf(m), utc_hour)]
    /\ UNCHANGED <<pf, lock, clock, stop_event, status, scan_count, price_thread,
                   cy, rw, refresh_count, env, scorer_lock>>

(***************************************************************************)
(* routes.api_status.                                                      *)
(***************************************************************************)
\* with portfolio.lock: (entry)
StatusLock ==
    /\ st.pc = "idle"
    /\ st.count < MaxStatus
    /\ LockFree
    /\ lock' = "status"
    /\ st' = [pc |-> "snapshot", count |-> st.count + 1]
    /\ UNCHANGED <<pf, history, clock, stop_event, status, scan_count, price_thread, cy, rw, refresh_count, env,
                   scorer_lock>>

\* snap = portfolio.snapshot(): the positions are copied, snap["capital_history"]
\* is the portfolio's own list; the with block ends
StatusSnapshot ==
    /\ st.pc = "snapshot"
    /\ lock' = Released("status")
    /\ st' = [st EXCEPT !.pc = "scores_lock"]
    /\ UNCHANGED <<pf, history, clock, stop_event, status, scan_count, price_thread, cy, rw, refresh_count, env,
                   scorer_lock>>

\* all_scores = scorer.get_all_scores(): with self._lock: (entry)
StatusScoresLock ==
    /\ st.pc = "scores_lock"
    /\ scorer_lock = "free"
    /\ scorer_lock' = "status"
    /\ st' = [st EXCEPT !.pc = "scores_keys"]
    /\ UNCHANGED <<pf, lock, history, clock, stop_event, status, scan_count,
                   price_thread, cy, rw, refresh_count, env>>

\* a with block of get_all_scores that ends without giving the lock back
StatusScoresKeysHeld ==
    /\ st.pc = "scores_keys"
    /\ st' = [st EXCEPT !.pc = "scores"]
    /\ UNCHANGED <<pf, lock, history, clock, stop_event, status, scan_count,
                   price_thread, cy, rw, refresh_count, env, scorer_lock>>

\* cids = list(self._history.keys()); the with block ends
StatusScoresKeys ==
    /\ st.pc = "scores_keys"
    /\ scorer_lock = "status"
    /\ scorer_lock' = "free"
    /\ st' = [st EXCEPT !.pc = "scores"]
    /\ UNCHANGED <<pf, lock, history, clock, stop_event, status, scan_count,
                   price_thread, cy, rw, refresh_count, env>>

\* for cid in cids: result[cid] = self.score(cid, ""): each call takes the
\* scorer's lock for its copy of the history and gives it back
StatusScores ==
    /\ st.pc = "scores"
    /\ scorer_lock = "free"
    /\ st' = [st EXCEPT !.pc = "jsonify"]
    /\ UNCHANGED <<pf, lock, history, clock, stop_event, status, scan_count,
                   price_thread, cy, rw, refresh_count, env, scorer_lock>>

\* return jsonify(snap): snap, with the list snap["capital_history"], is serialised
StatusRespond ==
    /\ st.pc = "jsonify"
    /\ st' = [st EXCEPT !.pc = "idle"]
    /\ UNCHANGED <<pf, lock, history, clock, stop_event, status, scan_count, price_thread, cy, rw, refresh_count, env,
                   scorer_lock>>

CycleStep ==
    \/ RunCheck \/ CycleBegin \/ IdsLock \/ Ids \/ ScanReturn \/ CountLock \/ Count
    \/ VerifyDone \/ VerifyStopped \/ VerifyNext \/ ClobReturn
    \/ PosLock \/ Pos \/ RepriceDone \/ RepriceStopped \/ RepriceFetch
    \/ RpClobReturn \/ RpGammaReturn
    \/ CsLock \/ CsOpen \/ CsApply \/ CsLiquidate \/ CsRecord \/ Purge \/ Wait

RefreshStep(w) ==
    \/ RefreshWake(w) \/ RefreshPosLock(w) \/ RefreshPos(w)
    \/ RefreshDone(w) \/ RefreshFetch(w) \/ RefreshClobReturn(w)
    \/ RefreshGammaReturn(w) \/ RefreshWriteLock(w) \/ RefreshWrite(w)

StatusStep ==
    \/ StatusLock \/ StatusSnapshot
    \/ StatusScoresLock \/ StatusScoresKeys \/ StatusScores
    \/ StatusRespond

Next ==
    \/ Stop
    \/ CycleStep
    \/ \E w \in Workers : RefreshStep(w)

Spec == Init /\ [][Next]_vars

\* every thread that can take a step is scheduled, and every call to an
\* external source returns
Fairness ==
    /\ WF_vars(CycleStep)
    /\ \A w \in Workers : WF_vars(RefreshStep(w))

\* the exposure environment
InitCap ==
    /\ Started
    /\ pf \in {NewPortfolio(INITIAL_CAPITAL), RestoredPortfolio}
    /\ env = CapEnv

SpecCap == InitCap /\ [][Next]_vars

\* both re-pricing loops over three positions
InitReprice ==
    /\ Started
    /\ pf = ThreeOpenPortfolio
    /\ env = RepriceEnv

SpecReprice == InitReprice /\ [][Next]_vars

\* the cycle worker alone, in the breaker environment
InitBreaker ==
    /\ Started
    /\ pf = NewPortfolio(INITIAL_CAPITAL)
    /\ env = BreakerEnv

NextCycle == Stop \/ CycleStep

SpecBreaker == InitBreaker /\ [][NextCycle]_vars

\* the inverted-token environment
InitSanity ==
    /\ Started
    /\ pf \in {NewPortfolio(INITIAL_CAPITAL), RestoredPortfolio}
    /\ env = SanityEnv

SpecSanity == InitSanity /\ [][Next]_vars

\* the same, with the threads scheduled fairly
SpecLive == InitSanity /\ [][Next]_vars /\ Fairness

\* the inverted-token environment, with a refresh worker that may die
NextCrash == Next \/ \E w \in Workers : RefreshCrash(w)

SpecCrash == InitSanity /\ [][NextCrash]_vars

\* the bot whose cycles and refresh passes may raise at any statement
NextRaise == Next \/ CycleRaise \/ \E w \in Workers : RefreshRaise(w)

SpecRaise == InitSanity /\ [][NextRaise]_vars /\ Fairness

\* the startup load on a new portfolio, over every store
InitLoad ==
    /\ lock = "free"
    /\ scorer_lock = "free"
    /\ history = << >>
    /\ clock = 0
    /\ stop_event = FALSE
    /\ status = "stopped"
    /\ scan_count = 0
    /\ price_thread = "none"
    /\ cy = CycleAt("unborn")
    /\ rw = [w \in Workers |-> RefreshAt("unborn")]
    /\ st = [pc |-> "boot", count |-> 0]
    /\ refresh_count = 0
    /\ pf = NewPortfolio(INITIAL_CAPITAL)
    /\ \E db \in Stores : env = LoadEnv(db)

NextLoad == LoadState

SpecLoad == InitLoad /\ [][NextLoad]_vars

\* portfolios with one and with two open positions
ClosePortfolios ==
    {RestoredPortfolio,
     open_position(RestoredPortfolio, [Opportunity(2) EXCEPT !.yes_price = 80], 1000)}

\* _close_position called with ids that are open, closed or never opened
InitClose ==
    /\ lock = "free"
    /\ scorer_lock = "free"
    /\ history = << >>
    /\ clock = 0
    /\ stop_event = FALSE
    /\ status = "stopped"
    /\ scan_count = 0
    /\ price_thread = "none"
    /\ cy = CycleAt("unborn")
    /\ rw = [w \in Workers |-> RefreshAt("unborn")]
    /\ st = [pc |-> "idle", count |-> 0, calls |-> << >>]
    /\ refresh_count = 0
    /\ pf \in ClosePortfolios
    /\ env = StatusEnv

NextClose ==
    \E cid \in 1..NumCapMarkets, close_status \in {"TAKE_PROFIT", "LOST"},
       pnl \in {0 - 400, 1100} : CloseCall(cid, close_status, pnl)

SpecClose == InitClose /\ [][NextClose]_vars

\* the entry bands a configuration may set: the default, a wider one, one of
\* zero width
SizeBands == {<<MIN_YES_PRICE, MAX_YES_PRICE>>, <<30, 150>>,
              <<MIN_YES_PRICE, MIN_YES_PRICE>>}

SizeEnv(band) ==
    [markets |-> 1..NumMarkets, fast |-> {<<None, None>>}, gamma |-> {<<None, None>>},
     hours |-> {23}, complete |-> FALSE, min_price |-> band[1], max_price |-> band[2]]

\* positions are sized and opened on a new or a small portfolio
InitSize ==
    /\ lock = "free"
    /\ scorer_lock = "free"
    /\ history = << >>
    /\ clock = 0
    /\ stop_event = FALSE
    /\ status = "stopped"
    /\ scan_count = 0
    /\ price_thread = "none"
    /\ cy = CycleAt("unborn")
    /\ rw = [w \in Workers |-> RefreshAt("unborn")]
    /\ st = [pc |-> "idle", count |-> 0]
    /\ refresh_count = 0
    /\ pf \in {NewPortfolio(INITIAL_CAPITAL), NewPortfolio(2537), NewPortfolio(0)}
    /\ \E band \in SizeBands : env = SizeEnv(band)

NextSize ==
    \E m \in 1..NumMarkets, yes_price \in {10, 30, 60, 75, 90, 120, 150} :
        SizeCall(m, yes_price)

SpecSize == InitSize /\ [][NextSize]_vars

\* a new scorer and its callers
InitScorer ==
    /\ lock = "free"
    /\ scorer_lock = "free"
    /\ history = << >>
    /\ clock = 0
    /\ stop_event = FALSE
    /\ status = "stopped"
    /\ scan_count = 0
    /\ price_thread = "none"
    /\ cy = CycleAt("unborn")
    /\ rw = [w \in Workers |-> RefreshAt("unborn")]
    /\ st = [pc |-> "idle", count |-> 0, log |-> [m \in 1..NumMarkets |-> << >>]]
    /\ refresh_count = 0
    /\ pf = NewPortfolio(INITIAL_CAPITAL)
    /\ env = StatusEnv

NextScorer ==
    \/ \E m \in 1..NumMarkets, yes_price \in {80} : RecordCall(m, yes_price)
    \/ \E m \in 1..NumMarkets : ScoreCall(m)
    \/ PurgeCall

SpecScorer == InitScorer /\ [][NextScorer]_vars

\* a new scorer; one market is recorded and scored
InitScore ==
    /\ lock = "free"
    /\ scorer_lock = "free"
    /\ history = << >>
    /\ clock = 0
    /\ stop_event = FALSE
    /\ status = "stopped"
    /\ scan_count = 0
    /\ price_thread = "none"
    /\ cy = CycleAt("unborn")
    /\ rw = [w \in Workers |-> RefreshAt("unborn")]
    /\ st = [pc |-> "idle", count |-> 0, last |-> score(<< >>, "", 0)]
    /\ refresh_count = 0
    /\ pf = NewPortfolio(INITIAL_CAPITAL)
    /\ env = StatusEnv

NextScore ==
    \E m \in 1..NumMarkets, yes_price \in {60, 70, 80, 85, 90, 120, 125},
       utc_hour \in {9, 18, 23} : ScoredRecord(m, yes_price, utc_hour)

SpecScore == InitScore /\ [][NextScore]_vars

\* the runner from its construction on, with start() and stop() called at
\* any moment
InitLife ==
    /\ InitRunner
    /\ pf = NewPortfolio(INITIAL_CAPITAL)
    /\ env = StatusEnv

NextLife == Start \/ Next

SpecLife == InitLife /\ [][NextLife]_vars

\* the bot and the status endpoint
InitStatus ==
    /\ Started
    /\ pf = RestoredPortfolio
    /\ env = StatusEnv

NextStatus == Next \/ StatusStep

SpecStatus == InitStatus /\ [][NextStatus]_vars

Threads == {"cycle", "status"} \cup Workers

\* the thread's next statement is the entry of a `with portfolio.lock:` block
AtLockEntry(t) ==
    IF t = "cycle"
    THEN cy.pc \in {"ids_lock", "count_lock", "pos_lock", "cs_lock"}
    ELSE IF t = "status" THEN st.pc = "idle" /\ st.count < MaxStatus
    ELSE rw[t].pc \in {"pos_lock", "write_lock"}

\* the thread is in none of its with blocks: between two cycles or two
\* refreshes, between two requests, not started or ended
OutsideLocks(t) ==
    IF t = "cycle" THEN cy.pc \in {"unborn", "dead", "run", "wait", "cycle"}
    ELSE IF t = "status" THEN st.pc = "idle"
    ELSE rw[t].pc \in {"unborn", "dead", "loop"}

\* a statement of _cycle other than the entry of a with block raises
CycleRaiseInside == ~AtLockEntry("cycle") /\ CycleRaise

\* a statement of _refresh_prices other than the entry of a with block raises
RefreshRaiseInside(w) == ~AtLockEntry(w) /\ RefreshRaise(w)

\* the bot started on a new portfolio
InitLocks ==
    /\ Started
    /\ pf = NewPortfolio(INITIAL_CAPITAL)
    /\ env = StatusEnv

\* the bot, the status endpoint and statements that raise; every thread that
\* can take a step is scheduled again
NextLocks ==
    \/ NextStatus
    \/ CycleRaiseInside
    \/ \E w \in Workers : RefreshRaiseInside(w)

SpecLocks == InitLocks /\ [][NextLocks]_vars /\ Fairness /\ WF_vars(StatusStep)

(***************************************************************************)
(* Properties.                                                             *)
(***************************************************************************)
RECURSIVE SumPnl(_)
SumPnl(ps) == IF ps = << >> THEN 0 ELSE Head(ps).pnl + SumPnl(Tail(ps))

\* the records closed_positions gained in a step
NewlyClosed ==
    SubSeq(pf'.closed_positions, Len(pf.closed_positions) + 1,
           Len(pf'.closed_positions))

\* C1: a market id is never in the open map and in the closed list at once, no
\* id is held twice by either, and a market that is in the closed list stays
\* there and is never in the open map again.
C1_OpenXorClosed ==
    /\ [](/\ OpenIds(pf) \cap ClosedIds(pf) = {}
          /\ \A i, j \in DOMAIN pf.closed_positions :
               i # j => pf.closed_positions[i].condition_id
                            # pf.closed_positions[j].condition_id
          /\ \A i, j \in DOMAIN pf.positions :
               i # j => pf.positions[i].condition_id
                            # pf.positions[j].condition_id)
    /\ [][/\ ClosedIds(pf) \subseteq ClosedIds(pf')
          /\ OpenIds(pf') \cap ClosedIds(pf) = {}]_vars

\* a scan ran with a closed market in its exclusion set, the source offered the
\* other market, and the cycle opened it
C1_Witness ==
    /\ cy.v.existing_ids \cap ClosedIds(pf) # {}
    /\ cy.v.opened # << >>
    /\ OpenIds(pf) # {}

\* C2: capital_disponible plus the allocated amounts of the open positions
\* never exceeds capital_total, and a step that closes positions changes
\* capital_total by their pnl and capital_disponible by their allocated
\* amounts plus their pnl.
C2_CapitalConservation ==
    /\ [](pf.capital_disponible + SumAllocated(pf.positions, "*")
              <= pf.capital_total)
    /\ [][Len(pf'.closed_positions) > Len(pf.closed_positions) =>
            /\ pf'.capital_total - pf.capital_total = SumPnl(NewlyClosed)
            /\ pf'.capital_disponible - pf.capital_disponible
                 = SumAllocated(NewlyClosed, "*") + SumPnl(NewlyClosed)]_vars

\* a position was closed with a gain while another is open
C2_Witness ==
    /\ \E i \in DOMAIN pf.closed_positions : pf.closed_positions[i].pnl > 0
    /\ pf.positions # << >>

\* C3 as stated: whenever the lock is free, capital_disponible plus the
\* allocated amounts of the open positions plus the realized pnl of the closed
\* positions equals capital_total.
C3_Original ==
    lock = "free" =>
        pf.capital_disponible + SumAllocated(pf.positions, "*")
            + SumPnl(pf.closed_positions) = pf.capital_total

\* C3: whenever the lock is free, capital_disponible plus the allocated
\* amounts of the open positions equals capital_total, and capital_total is
\* capital_inicial plus the realized pnl of the closed positions.
C3_Accounting ==
    lock = "free" =>
        /\ pf.capital_disponible + SumAllocated(pf.positions, "*")
               = pf.capital_total
        /\ pf.capital_total = pf.capital_inicial + SumPnl(pf.closed_positions)

\* the lock is free, a position is open and the realized pnl is not zero
C3_Witness ==
    /\ lock = "free"
    /\ scorer_lock = "free"
    /\ pf.positions # << >>
    /\ SumPnl(pf.closed_positions) # 0

\* the entries of the closed list for a market
ClosedAs(cid) ==
    {pf.closed_positions[i] : i \in {j \in DOMAIN pf.closed_positions :
                                       pf.closed_positions[j].condition_id = cid}}

\* the price the cycle's price map holds for a market: a dict keeps one value for a key
PriceFor(cid) ==
    LET idxs == {i \in DOMAIN cy.v.price_map : cy.v.price_map[i].cid = cid}
    IN  cy.v.price_map[CHOOSE i \in idxs : \A j \in idxs : j <= i]

\* C4: right after apply_price_updates, each position of the price map has
\* exactly one outcome, by priority: YES at 0.99 or more closes it WON with
\* pnl tokens * yes - allocated; otherwise NO at 0.99 or more closes it LOST
\* with pnl -allocated; otherwise YES at the take-profit threshold or more
\* closes it TAKE_PROFIT with pnl tokens * yes - allocated; otherwise it stays
\* open with current_yes set to the new YES price.
C4_ExitPriority ==
    cy.pc = "cs_liq" =>
        \A k \in DOMAIN cy.v.price_map :
            LET cid == cy.v.price_map[k].cid
                e == PriceFor(cid)
                sale(pos) == (pos.tokens * e.yes) \div 1000 - pos.allocated
            IN  IF e.yes >= 990
                THEN /\ cid \notin OpenIds(pf)
                     /\ \E c \in ClosedAs(cid) :
                          /\ ClosedAs(cid) = {c}
                          /\ c.status = "WON" /\ c.pnl = sale(c)
                ELSE IF e.no >= 990
                THEN /\ cid \notin OpenIds(pf)
                     /\ \E c \in ClosedAs(cid) :
                          /\ ClosedAs(cid) = {c}
                          /\ c.status = "LOST" /\ c.pnl = 0 - c.allocated
                ELSE IF e.yes >= TAKE_PROFIT_YES
                THEN /\ cid \notin OpenIds(pf)
                     /\ \E c \in ClosedAs(cid) :
                          /\ ClosedAs(cid) = {c}
                          /\ c.status = "TAKE_PROFIT" /\ c.pnl = sale(c)
                ELSE /\ cid \in OpenIds(pf)
                     /\ ClosedAs(cid) = {}
                     /\ PosOf(pf, cid).current_yes = e.yes
                     /\ PosOf(pf, cid).status = "OPEN"

\* apply_price_updates has just closed a position WON on a YES price that is
\* also above the take-profit threshold
C4_Witness ==
    /\ cy.pc = "cs_liq"
    /\ \E k \in DOMAIN cy.v.price_map :
         /\ cy.v.price_map[k].yes >= 990
         /\ \E c \in ClosedAs(cy.v.price_map[k].cid) : c.status = "WON"

\* the points where a thread waits for an external source
InSourceCall(t) ==
    IF t = "cycle" THEN cy.pc \in {"scan", "clob", "rp_clob", "rp_gamma"}
    ELSE rw[t].pc \in {"clob", "gamma"}

\* C10: no thread waits for the discovery source, the fast price source or the
\* fallback price source while it holds the portfolio lock.
C10_NoSourceCallUnderLock ==
    \A t \in {"cycle"} \cup Workers : InSourceCall(t) => lock # t

\* the cycle worker waits for the fallback source for a position it copied out
\* under the lock, while a refresh worker holds the lock for its write-back
C10_Witness ==
    /\ cy.pc = "rp_gamma"
    /\ cy.v.pos_data # << >>
    /\ \E w \in Workers : lock = w /\ rw[w].pc = "write"

\* C5: the number of open positions never exceeds MAX_POSITIONS; at
\* MAX_POSITIONS open positions can_open_position is false and a step of the
\* cycle's execution loop opens nothing.
C5_MaxPositions ==
    /\ [](/\ Len(pf.positions) <= MAX_POSITIONS
          /\ Len(pf.positions) = MAX_POSITIONS => ~can_open_position(pf))
    /\ [][Len(pf.positions) >= MAX_POSITIONS =>
            Len(pf'.positions) <= Len(pf.positions)]_vars

\* the execution loop stopped at MAX_POSITIONS open positions with a verified
\* candidate left
C5_Witness ==
    /\ cy.pc = "cs_apply"
    /\ Len(pf.positions) = MAX_POSITIONS
    /\ cy.v.opened # << >>
    /\ cy.v.idx <= Len(cy.v.verified_opps)

\* the position the execution loop opened last
LastOpened == PosOf(pf, cy.v.opened[Len(cy.v.opened)])

\* C6 as stated: right after the execution loop opens a position, the
\* allocated total of the position's region is below
\* MAX_REGION_EXPOSURE * capital_total.
C6_RegionCapAfterOpen ==
    (cy.pc = "cs_open" /\ cy.v.opened # << >>) =>
        get_region_allocated(pf, RegionOf(LastOpened.city)) * 1000
            < pf.capital_total * MAX_REGION_EXPOSURE

\* the failed fetches at the end of a log of candidates, the candidates that
\* were not sent left aside
RECURSIVE TrailingFails(_)
TrailingFails(log) ==
    IF log = << >> THEN 0
    ELSE LET front == SubSeq(log, 1, Len(log) - 1)
             last == log[Len(log)]
         IN  IF last = "none" THEN TrailingFails(front)
             ELSE IF last = "fail" THEN 1 + TrailingFails(front)
             ELSE 0

\* the 5 fetches before candidate i + 1 of the running pass all failed
Tripped(i) == TrailingFails(SubSeq(cy.v.fetched, 1, i)) >= 5

\* C7: in a pass of the candidate loop, once 5 consecutive fetches from the
\* fast source have failed no later candidate is sent to it; each later
\* candidate is listed unscored, gets no observation in the scorer and is not
\* verified; and the next pass starts with the breaker closed.
C7_DiscoveryBreaker ==
    /\ cy.pc = "clob" => \A i \in 0..Len(cy.v.fetched) : ~Tripped(i)
    /\ \A i, j \in DOMAIN cy.v.fetched :
         (i < j /\ Tripped(i)) =>
            LET opp == cy.v.opportunities[j]
                hist == HistoryOf(history, opp.condition_id)
            IN  /\ cy.v.fetched[j] = "none"
                /\ cy.v.display_opps[j] = Unscored(opp)
                /\ \A k \in DOMAIN cy.v.verified_opps :
                     cy.v.verified_opps[k].condition_id # opp.condition_id
                /\ \A k \in DOMAIN hist : hist[k].ts # clock
    /\ (cy.pc = "verify" /\ cy.v.idx = 1) => (cy.v.clob_ok /\ cy.v.fetched = << >>)

\* a pass is over in which the breaker tripped before the last candidate
C7_Witness ==
    /\ cy.pc = "pos_lock"
    /\ \E i \in DOMAIN cy.v.fetched : i < Len(cy.v.fetched) /\ Tripped(i)

\* no price above 0.50 among the scorer's observations, the verified
\* candidates and the entry prices of the positions
EntryPricesSane ==
    /\ \A c \in DOMAIN history : \A k \in DOMAIN history[c] :
         history[c][k].yes_price <= 500
    /\ \A k \in DOMAIN cy.v.verified_opps : cy.v.verified_opps[k].yes_price <= 500
    /\ \A k \in DOMAIN pf.positions : pf.positions[k].entry_yes <= 500
    /\ \A k \in DOMAIN pf.closed_positions : pf.closed_positions[k].entry_yes <= 500

\* C8 as stated: a YES price above 0.50 from any price source is never
\* recorded in the scorer, never used for an entry decision, never written
\* into a position's current_yes and never passed to the exit rules.
C8_Original ==
    /\ EntryPricesSane
    /\ \A k \in DOMAIN pf.positions : pf.positions[k].current_yes <= 500
    /\ cy.pc = "cs_liq" =>
          \A k \in DOMAIN cy.v.price_map : cy.v.price_map[k].yes <= 500

\* C8: a YES price above 0.50 from the fast source is treated like a failed
\* fetch: it is never recorded in the scorer, never used for an entry decision,
\* never put in the price map of the exit rules, never written into
\* current_yes, and the answer counts as a failure for the loop's breaker.
\* (The fallback source's prices are taken as they come.)
C8_FastSourceSanity ==
    /\ [](/\ EntryPricesSane
          /\ \A k \in DOMAIN cy.v.price_map :
               cy.v.price_map[k].src = "CLOB" => cy.v.price_map[k].yes <= 500
          /\ \A w \in Workers : rw[w].v.source = "CLOB" => rw[w].v.yes_p <= 500)
    /\ [][/\ (cy.pc = "clob" /\ cy'.pc # "clob") =>
                \/ /\ cy'.v.fetched = Append(cy.v.fetched, "ok")
                   /\ cy'.v.clob_fails = cy.v.clob_fails
                \/ /\ cy'.v.fetched = Append(cy.v.fetched, "fail")
                   /\ cy'.v.clob_fails = cy.v.clob_fails + 1
                   /\ history' = history
                   /\ cy'.v.verified_opps = cy.v.verified_opps
          /\ (cy.pc = "rp_clob" /\ cy'.pc # "rp_clob") =>
                \/ /\ cy'.pc = "reprice"
                   /\ Len(cy'.v.price_map) = Len(cy.v.price_map) + 1
                   /\ cy'.v.clob_fail_pos = cy.v.clob_fail_pos
                \/ /\ cy'.pc = "rp_gamma"
                   /\ cy'.v.price_map = cy.v.price_map
                   /\ cy'.v.clob_fail_pos = cy.v.clob_fail_pos + 1
          /\ \A w \in Workers :
               (rw[w].pc = "clob" /\ rw'[w].pc # "clob") =>
                  \/ /\ rw'[w].pc = "write_lock"
                     /\ rw'[w].v.source = "CLOB"
                     /\ rw'[w].v.clob_failures = 0
                  \/ /\ rw'[w].pc = "gamma"
                     /\ rw'[w].v.yes_p = None
                     /\ rw'[w].v.clob_failures = rw[w].v.clob_failures + 1]_vars

\* where the fast source never fails to answer: its inverted answers for a
\* candidate and for a position counted as failures, and the fallback's answer
\* of 0.99 for the position is in the price map
C8_Witness ==
    /\ env = SanityEnv
    /\ \E k \in DOMAIN cy.v.fetched : cy.v.fetched[k] = "fail"
    /\ cy.v.clob_fail_pos >= 1
    /\ \E k \in DOMAIN cy.v.price_map :
         cy.v.price_map[k].src = "Gamma" /\ cy.v.price_map[k].yes > 500

\* the points where a thread's next step reads or writes the portfolio's
\* positions, closed list, capital fields or capital history
AccessesPortfolio(t) ==
    IF t = "cycle"
    THEN cy.pc \in {"ids", "count", "pos", "cs_open", "cs_apply", "cs_liq",
                    "cs_record"}
    ELSE IF t = "status" THEN st.pc \in {"snapshot", "jsonify"}
    ELSE rw[t].pc \in {"pos", "write"}

\* C9 as stated: every read and write of the portfolio's positions, closed
\* list, capital fields and capital history by the cycle loop, the refresh
\* loop and the status endpoint is made while holding the portfolio lock.
C9_AccessUnderLock ==
    \A t \in {"cycle", "status"} \cup Workers : AccessesPortfolio(t) => lock = t

\* the steps of the cycle's critical section after the opens
InCriticalSection == cy.pc \in {"cs_apply", "cs_liq", "cs_record"}

\* C11 as stated: applying the price updates, auto-liquidation, recording
\* capital and purging the scorer history all run inside one critical section
\* of the portfolio lock.
C11_Original ==
    (InCriticalSection \/ cy.pc = "purge") => lock = "cycle"

\* C11: applying the price updates, auto-liquidation and recording capital run
\* inside one critical section of the portfolio lock: the cycle worker holds
\* the lock from the first to the last of them and only its own steps change
\* the portfolio in between.  The purge of the scorer history runs after the
\* lock is released.
C11_OneCriticalSection ==
    /\ [](/\ InCriticalSection => lock = "cycle"
          /\ cy.pc = "purge" => lock # "cycle")
    /\ [][InCriticalSection =>
            /\ (pf' # pf \/ lock' # lock) => cy'.pc # cy.pc
            /\ cy'.pc \in {"cs_apply", "cs_liq", "cs_record", "purge"}]_vars

\* the capital is recorded, the purge is still to run, and a refresh worker
\* holds the lock for its write
C11_Witness ==
    /\ cy.pc = "purge"
    /\ \E w \in Workers : lock = w /\ rw[w].pc = "write"

\* both loops have ended
Terminated == ~CycleAlive /\ \A w \in Workers : ~WorkerAlive(w)

\* C12: once the stop event is set (nothing clears it), the cycle loop and the
\* refresh loop eventually end, and after they ended the portfolio is not
\* changed any more.
C12_StopTerminates ==
    /\ stop_event ~> Terminated
    /\ [][Terminated => pf' = pf]_vars

\* both loops ended on the stop event after the cycle had opened a position
C12_Witness ==
    /\ stop_event
    /\ Terminated
    /\ \E k \in DOMAIN pf.positions : pf.positions[k].entry_yes >= MIN_YES_PRICE

C14_Watchdog ==
    /\ [][(cy.pc = "cycle" /\ cy'.pc # "cycle"
             /\ price_thread # "none" /\ ~WorkerAlive(price_thread)) =>
            /\ rw'[price_thread'].pc = "loop"
            /\ \A w \in Workers : WorkerAlive(w) => rw'[w] = rw[w]]_vars
    /\ [][(cy.pc = "cycle" /\ cy'.pc # "cycle") =>
            (price_thread' # "none" /\ rw'[price_thread'].pc \notin {"unborn", "dead"})]_vars

\* with the stop event not set, the second iteration found the refresh worker
\* dead and started a new one
C14_Witness ==
    /\ ~stop_event
    /\ scan_count = 2
    /\ cy.v.restarted
    /\ WorkerAlive(price_thread)

\* C15: start() called while the cycle worker is alive changes nothing and
\* creates no worker; stop() called again leaves the state stop() left: the
\* stop event set and status "stopped".
C15_StartStopIdempotent ==
    /\ is_running => start(Runner) = Runner
    /\ stop(stop(Runner)) = stop(Runner)
    /\ stop(Runner).stop_event /\ stop(Runner).status = "stopped"
    /\ stop(Runner).cy = cy /\ stop(Runner).rw = rw
    /\ stop(Runner).price_thread = price_thread

\* stop() was called and the cycle worker, started a second time, is still
\* alive: a call of start() finds it running
C15_Witness ==
    /\ stop_event
    /\ status = "stopped"
    /\ is_running
    /\ \E w \in Workers : rw[w].pc = "dead"

\* C16: an exception raised at any statement of a cycle or of a refresh pass
\* does not end its loop (a worker ends only at its loop test with the stop
\* event set), the thread that raised does not keep the portfolio lock, and
\* the next cycle begins after the wait unless the bot is stopped.
C16_ExceptionsCaught ==
    /\ [](/\ cy.pc \in {"wait", "run", "cycle", "dead"} => lock # "cycle"
          /\ \A w \in Workers : rw[w].pc \in {"loop", "dead", "unborn"} => lock # w)
    /\ [][/\ (CycleAlive /\ cy'.pc = "dead") => (cy.pc = "run" /\ stop_event)
          /\ \A w \in Workers :
               (WorkerAlive(w) /\ rw'[w].pc = "dead")
                   => (rw[w].pc = "loop" /\ stop_event)]_vars
    /\ (cy.pc = "wait" /\ ~stop_event /\ scan_count < MaxCycles)
           ~> (cy.pc = "ids_lock" \/ stop_event)

\* the first cycle raised inside the critical section, after it opened a
\* position and before record_capital; the second cycle holds the lock
C16_Witness ==
    /\ scan_count = 2
    /\ cy.pc = "ids"
    /\ lock = "cycle"
    /\ pf.cap_record_count = 0
    /\ \E k \in DOMAIN pf.positions : pf.positions[k].entry_yes >= MIN_YES_PRICE

\* C17: a load that fails (no stored state, or a statement of the load
\* raises) returns False without raising, and leaves the portfolio as
\* __init__ made it: the three capitals at the configured initial capital, no
\* open and no closed position.
C17_FailedLoadLeavesDefaults ==
    st.pc \in {"fresh", "crashed"} =>
        /\ st.pc = "fresh"
        /\ pf.capital_inicial = INITIAL_CAPITAL
        /\ pf.capital_total = INITIAL_CAPITAL
        /\ pf.capital_disponible = INITIAL_CAPITAL
        /\ pf.positions = << >>
        /\ pf.closed_positions = << >>

\* C18: _close_position called with an id that is not open (never opened, or
\* closed before) changes nothing: capital_total, capital_disponible, the open
\* map and the closed list stay as they are; so an id is in the closed list
\* once and capital_total holds each closed position's pnl once.
C18_CloseIdempotent ==
    /\ [][(Len(st'.calls) > Len(st.calls)
             /\ st'.calls[Len(st'.calls)] \notin OpenIds(pf)) => pf' = pf]_vars
    /\ [](/\ \A i, j \in DOMAIN pf.closed_positions :
               i # j => pf.closed_positions[i].condition_id
                            # pf.closed_positions[j].condition_id
          /\ pf.capital_total = pf.capital_inicial + SumPnl(pf.closed_positions))

\* an id was closed and _close_position was called with it again, while
\* another position is open
C18_Witness ==
    /\ Len(st.calls) >= 2
    /\ st.calls[1] = st.calls[2]
    /\ st.calls[1] \in ClosedIds(pf)
    /\ OpenIds(pf) # {}

\* C19: for the available capital and an entry band [min_price, max_price],
\* the position size does not grow with the price; it is max_fraction * capital
\* at min_price and at every price below, min_fraction * capital at max_price
\* and at every price above; when the band has zero width it is
\* max_fraction * capital at every price.
C19_PositionSize ==
    LET c == pf.capital_disponible
        size(p) == position_size(c, p, env.min_price, env.max_price)
        largest == (c * POSITION_SIZE_MAX) \div 1000
        smallest == (c * POSITION_SIZE_MIN) \div 1000
    IN  /\ \A p \in 0..(MaxSizePrice - 1) : size(p) >= size(p + 1)
        /\ env.min_price < env.max_price =>
             /\ size(env.min_price) = largest
             /\ size(env.max_price) = smallest
             /\ \A p \in 0..MaxSizePrice :
                  /\ p <= env.min_price => size(p) = largest
                  /\ p >= env.max_price => size(p) = smallest
        /\ env.min_price = env.max_price =>
             \A p \in 0..MaxSizePrice : size(p) = largest

\* under a band of positive width, one position was sized at the lowest price
\* of the band and the next at the highest: the first got the largest fraction
\* of the capital then available, the second the smallest
C19_Witness ==
    /\ env.min_price < env.max_price
    /\ Len(pf.positions) = 2
    /\ pf.positions[1].entry_yes = env.min_price
    /\ pf.positions[1].allocated = (pf.capital_inicial * POSITION_SIZE_MAX) \div 1000
    /\ pf.positions[2].entry_yes = env.max_price
    /\ pf.positions[2].allocated
         = ((pf.capital_inicial - pf.positions[1].allocated) * POSITION_SIZE_MIN)
               \div 1000
    /\ pf.positions[2].allocated < pf.positions[1].allocated

\* C20: the breaker of the candidate loop is open only when 5 fetches from the
\* fast source failed in a row, no successful fetch between them: the count
\* of failures is 0 again after a successful fetch.
C20_BreakerCountsConsecutive ==
    /\ ~cy.v.clob_ok => \E i \in 0..Len(cy.v.fetched) : Tripped(i)
    /\ cy.v.clob_fails = TrailingFails(cy.v.fetched)

\* the breaker of a re-pricing pass with the log f is due after entry i: the
\* 2 fetches before it failed in a row
TrippedIn(f, i) == TrailingFails(SubSeq(f, 1, i)) >= 2

\* a re-pricing pass whose breaker is open exactly when 2 fetches in a row
\* failed: ok is the pass's flag, f its log
ConsecutiveBreaker(ok, f) ==
    /\ ~ok => \E i \in 0..Len(f) : TrippedIn(f, i)
    /\ \A i, j \in DOMAIN f : (i < j /\ TrippedIn(f, i)) => f[j] = "none"

\* C21: the re-pricing pass of the cycle and the pass of the refresh loop
\* stop asking the fast source exactly after 2 failures in a row of that pass,
\* a success in between resetting the count, and price every later position
\* from the fallback only; each pass starts with the count at zero.
C21_RepriceBreakersAgree ==
    /\ ConsecutiveBreaker(cy.v.clob_ok_pos, cy.v.fetched_pos)
    /\ \A w \in Workers : ConsecutiveBreaker(rw[w].v.clob_ok, rw[w].v.fetched)
    /\ (cy.pc = "reprice" /\ cy.v.idx = 1)
           => (cy.v.clob_ok_pos /\ cy.v.clob_fail_pos = 0)
    /\ \A w \in Workers :
         (rw[w].pc = "iter" /\ rw[w].v.idx = 1)
             => (rw[w].v.clob_ok /\ rw[w].v.clob_failures = 0)

\* C22: a position is opened only in the critical section of a cycle, from a
\* candidate that the fast source priced in this cycle inside the entry band
\* and that scored at least the minimum entry score; its entry_yes is that
\* price. A candidate that fails the gate is only skipped: the loop goes on
\* with the next candidate.
C22_OpensAreVerified ==
    /\ [][\A k \in OpenIds(pf') \ OpenIds(pf) :
            /\ cy.pc = "cs_open"
            /\ \E j \in DOMAIN cy.v.display_opps :
                 /\ cy.v.display_opps[j].condition_id = k
                 /\ cy.v.fetched[j] = "ok"
                 /\ cy.v.display_opps[j].score >= MIN_ENTRY_SCORE
            /\ LET e == PosOf(pf', k).entry_yes
                   h == HistoryOf(history, k)
               IN  /\ MIN_YES_PRICE <= e /\ e <= MAX_YES_PRICE
                   /\ h # << >>
                   /\ h[Len(h)].ts = clock
                   /\ h[Len(h)].yes_price = e]_vars
    /\ [][(cy.pc = "clob" /\ cy' # cy)
             => (cy'.pc = "verify" /\ cy'.v.idx = cy.v.idx + 1)]_vars

\* a cycle opened a position and skipped a candidate that the fast source
\* priced, and went on to the end of its critical section
C22_Witness ==
    /\ cy.pc = "cs_record"
    /\ cy.v.opened # << >>
    /\ \E j \in DOMAIN cy.v.display_opps :
         /\ cy.v.fetched[j] = "ok"
         /\ cy.v.display_opps[j].condition_id \notin OpenIds(pf)
         /\ cy.v.display_opps[j].condition_id \notin ClosedIds(pf)

\* C23: the auto-liquidation step of a cycle closes every open position whose
\* entry price is outside the entry band, with status LIQUIDATED and
\* pnl = tokens * current_yes - allocated, and leaves open every position whose
\* entry price is inside; so after the critical section no open position is
\* outside the band, and no position with an entry price inside the band is
\* ever closed as LIQUIDATED.
C23_AutoLiquidation ==
    /\ [](/\ cy.pc \in {"cs_record", "purge"} =>
               \A k \in DOMAIN pf.positions :
                   /\ MIN_YES_PRICE <= pf.positions[k].entry_yes
                   /\ pf.positions[k].entry_yes <= MAX_YES_PRICE
          /\ \A k \in DOMAIN pf.closed_positions :
               pf.closed_positions[k].status = "LIQUIDATED" =>
                   \/ pf.closed_positions[k].entry_yes < MIN_YES_PRICE
                   \/ pf.closed_positions[k].entry_yes > MAX_YES_PRICE)
    /\ [][(cy.pc = "cs_liq" /\ cy'.pc = "cs_record") =>
            \A k \in DOMAIN pf.positions :
                LET pos == pf.positions[k]
                IN  IF pos.entry_yes < MIN_YES_PRICE \/ pos.entry_yes > MAX_YES_PRICE
                    THEN \E j \in DOMAIN pf'.closed_positions :
                           /\ j > Len(pf.closed_positions)
                           /\ pf'.closed_positions[j].condition_id = pos.condition_id
                           /\ pf'.closed_positions[j].status = "LIQUIDATED"
                           /\ pf'.closed_positions[j].pnl
                                = (pos.tokens * pos.current_yes) \div 1000 - pos.allocated
                    ELSE pos.condition_id \in OpenIds(pf')]_vars

\* the restored position, entered below the band, was liquidated at a price
\* that a source had written since, while a position entered in the band
\* stays open
C23_Witness ==
    /\ cy.pc = "cs_record"
    /\ \E k \in DOMAIN pf.closed_positions :
         /\ pf.closed_positions[k].status = "LIQUIDATED"
         /\ pf.closed_positions[k].pnl > 0
    /\ pf.positions # << >>

\* C24: a step of a refresh worker changes nothing of the portfolio but the
\* current_yes of positions that are open when it writes: the open ids, the
\* capitals, the capital history and the closed list stay as they are, also
\* when the cycle closed the position after the worker listed it.
C24_RefreshFrame ==
    [][(\E w \in Workers : rw'[w] # rw[w]) =>
         /\ pf'.capital_inicial = pf.capital_inicial
         /\ pf'.capital_total = pf.capital_total
         /\ pf'.capital_disponible = pf.capital_disponible
         /\ pf'.capital_history = pf.capital_history
         /\ pf'.closed_positions = pf.closed_positions
         /\ DOMAIN pf'.positions = DOMAIN pf.positions
         /\ \A k \in DOMAIN pf.positions :
              pf'.positions[k]
                = [pf.positions[k] EXCEPT !.current_yes = pf'.positions[k].current_yes]]_vars

\* a worker holds the lock to write a price for a position that the cycle
\* closed after the worker listed it
C24_Witness ==
    \E w \in Workers :
        /\ rw[w].pc = "write"
        /\ rw[w].v.pos_data[rw[w].v.idx].cid \in ClosedIds(pf)
        /\ \E k \in DOMAIN pf.closed_positions :
             /\ pf.closed_positions[k].condition_id = rw[w].v.pos_data[rw[w].v.idx].cid
             /\ pf.closed_positions[k].current_yes # rw[w].v.yes_p

\* C25: whatever calls of record, score, get_all_scores and purge_old came
\* before, a history of the scorer holds at most 50 observations, and they are
\* the most recent ones recorded for its market (since the history was last
\* deleted), in the order they were recorded; a record on a history of 50
\* drops the oldest one.
C25_HistoryCap ==
    /\ [](\A m \in DOMAIN history :
            /\ Len(history[m]) <= MAX_HISTORY_PER_MARKET
            /\ history[m] = LastN(st.log[m], MAX_HISTORY_PER_MARKET))
    /\ [][\A m \in DOMAIN history :
            (/\ m \in DOMAIN history'
             /\ history'[m] # history[m]
             /\ Len(history[m]) = MAX_HISTORY_PER_MARKET)
                => /\ Len(history'[m]) = MAX_HISTORY_PER_MARKET
                   /\ SubSeq(history'[m], 1, MAX_HISTORY_PER_MARKET - 1)
                        = Tail(history[m])
                   /\ history'[m][MAX_HISTORY_PER_MARKET].ts = clock]_vars

\* 51 observations were recorded for market 1: its history holds the 50 after
\* the first
C25_Witness ==
    /\ Len(st.log[1]) = MAX_HISTORY_PER_MARKET + 1
    /\ Len(history[1]) = MAX_HISTORY_PER_MARKET
    /\ history[1][1] = st.log[1][2]

\* C26: for the history of a market, score returns total = price +
\* trajectory + volume + time, each sub-score in its range. The trajectory
\* sub-score is 0 for fewer than 2 observations; otherwise, over the last
\* min(4, n) prices with avg_change = (last - first) / (count - 1), it is 10 if
\* avg_change > 0.02, 30 if 0.005 <= avg_change <= 0.02, else 20 if
\* max - min < 0.01, else 0. The price sub-score is 30 and zone A for a last
\* price in [0.06, 0.09), 20 and zone B for [0.09, 0.12], else 0.
C26_Score ==
    \A m \in DOMAIN history :
        LET hist == history[m]
            r == st.last
            len == Len(hist)
            n == IF len < 4 THEN len ELSE 4
            first == hist[len - n + 1].yes_price
            last == hist[len].yes_price
            window == {hist[i].yes_price : i \in (len - n + 1)..len}
        IN  /\ r.total = r.price + r.trajectory + r.volume + r.time
            /\ r.observations = len
            /\ r.price \in {0, 20, 30}
            /\ r.trajectory \in {0, 10, 20, 30}
            /\ r.volume \in {0, 10, 15, 20}
            /\ r.time \in {0, 5, 10, 15, 20}
            /\ len < 2 => r.trajectory = 0
            /\ len >= 2 =>
                 r.trajectory =
                    IF last - first > 20 * (n - 1) THEN 10
                    ELSE IF last - first >= 5 * (n - 1) THEN 30
                    ELSE IF \A a, b \in window : a - b < 10 THEN 20
                    ELSE 0
            /\ (60 <= last /\ last < 90) => (r.price = 30 /\ r.zone = "A")
            /\ (90 <= last /\ last <= 120) => (r.price = 20 /\ r.zone = "B")
            /\ (last < 60 \/ last > 120) => (r.price = 0 /\ r.zone = "-")

\* the history 0.06, 0.07, 0.08, 0.09 was scored: trajectory 30, price 20
C26_Witness ==
    \E m \in DOMAIN history :
        /\ Len(history[m]) = 4
        /\ [i \in 1..4 |-> history[m][i].yes_price] = <<60, 70, 80, 90>>
        /\ st.last.trajectory = 30
        /\ st.last.price = 20

\* C27: capital_disponible is never negative, whatever positions the runner
\* sized and opened and whatever closes (WON, LOST, TAKE_PROFIT, LIQUIDATED)
\* followed, the prices being non-negative.
C27_AvailableCapitalNonNegative == pf.capital_disponible >= 0

\* the runner opened a position, one position was closed as LOST and its
\* allocation is gone
C27_Witness ==
    /\ \E k \in DOMAIN pf.positions : pf.positions[k].entry_yes >= MIN_YES_PRICE
    /\ \E k \in DOMAIN pf.closed_positions : pf.closed_positions[k].status = "LOST"
    /\ pf.capital_total < pf.capital_inicial

\* C28: whatever the order of start, stop and the watchdog, at most one cycle
\* worker and at most one refresh worker are in their loops at a time.
C28_OneWorkerEach ==
    \A w1, w2 \in Workers : (WorkerAlive(w1) /\ WorkerAlive(w2)) => w1 = w2

\* C29: when start() returns, in whatever state it was called (also right
\* after stop(), the previous cycle worker still alive), the bot is running:
\* the stop event is clear, status is "running" and a cycle worker is alive
\* that goes on with its cycles.
C29_StartedIsRunning ==
    LET r == start(Runner)
    IN  /\ ~r.stop_event
        /\ r.status = "running"
        /\ r.cy.pc \notin {"unborn", "dead"}

\* C30: the two locks are only nested portfolio then scorer (the holder of
\* the scorer's lock never asks for the portfolio lock), no thread asks for a
\* lock it holds, a thread outside its with blocks (after a normal exit, an
\* exception or a return on stop) holds no lock, and the cycle loop, each
\* refresh loop and a status request at the entry of `with portfolio.lock`
\* each obtain the lock.
C30_DeadlockFree ==
    /\ [](\A t \in Threads :
            /\ AtLockEntry(t) => (lock # t /\ scorer_lock # t)
            /\ OutsideLocks(t) => (lock # t /\ scorer_lock # t))
    /\ [](st.pc = "scores_lock" => scorer_lock # "status")
    /\ [](scorer_lock \in {"free", "status"})
    /\ \A t \in Threads : AtLockEntry(t) ~> (lock = t)

\* the cycle worker holds the portfolio lock and its next open waits for the
\* scorer's lock, which a status request holds; a refresh worker waits for the
\* portfolio lock
C30_Witness ==
    /\ cy.pc = "cs_open"
    /\ lock = "cycle"
    /\ scorer_lock = "status"
    /\ cy.v.idx <= Len(cy.v.verified_opps)
    /\ can_open_position(pf)
    /\ LET opp == cy.v.verified_opps[cy.v.idx]
       IN  /\ region_has_capacity(pf, opp.city)
           /\ calc_position_size(pf.capital_disponible, opp.yes_price) >= DUST_AMOUNT
    /\ \E w \in Workers : AtLockEntry(w)

=============================================================================
